---- MODULE Spec2Model ----
(***************************************************************************)
(* A model of the central ledger / inventory-reservation engine            *)
(* (agenteconomy/center/Ecocenter.py, class EconomicCenter) and of the     *)
(* labor-market matching engine (agenteconomy/center/LaborMarket.py).      *)
(*                                                                         *)
(* Money is counted in cents (integers), so that the percentage rates of   *)
(* the tax policy give exact results on the amounts the model uses; the    *)
(* Python floats are read as exact rationals.  The wall clock time.time()  *)
(* is the variable now, advanced by Tick.                                  *)
(***************************************************************************)
EXTENDS Integers, Sequences, FiniteSets, TLC

\* ------------------------------------------------------------------ bounds
MaxTx == 3            \* cap on len(tx_history)
MaxRes == 2           \* cap on len(inventory_reservations)
MaxTicks == 1         \* number of clock advances
MaxUnmet == 1         \* cap on unmet-demand attempts recorded per key
MaxUpdates == 1       \* cap on update_balance calls
MaxFirmIds == 3       \* cap on the length of the list of firm ids
MaxJobs == 2          \* cap on len(job_openings)
MaxPositions == 2     \* cap on a job's positions_available
MaxApplications == 2  \* cap on the number of applications submitted
MaxHires == 2         \* cap on len(matched_jobs)

\* ------------------------------------------------------- program constants
reservation_timeout == 300
vat_rate_pct == 8
corporate_tax_rate_pct == 21

gov_id == "gov_main_simulation"
market_resource == "market_resource_A"

HouseholdIds == {"h1", "h2"}
FirmIds == {"f1"}
FirmBuyers == {"f2"}          \* a registered firm that only buys
AgentIds == HouseholdIds \cup FirmIds \cup FirmBuyers \cup {gov_id, market_resource}
ProductIds == {"p1"}
Months == {1, 2}
TradeMonths == {1}    \* the month in which goods, wages and services are paid
TickSeconds == reservation_timeout + 1   \* seconds per clock advance
NoRes == 0            \* reservation_id = None
NoMonth == 0          \* month = None, the default of reserve_inventory
UnknownRes == MaxRes + 1   \* an id that is not in inventory_reservations
Prices == {10000}
Quantities == {1, 2}

\* Default TaxPolicy.income_tax_rate: cutoffs in cents, rates in percent.
income_tax_rate ==
  << [cutoff |-> 0,        rate |-> 10],
     [cutoff |-> 1000000,  rate |-> 15],
     [cutoff |-> 4000000,  rate |-> 22],
     [cutoff |-> 8500000,  rate |-> 24],
     [cutoff |-> 16000000, rate |-> 32],
     [cutoff |-> 20000000, rate |-> 35] >>

\* --------------------------------------------------------------- variables
VARIABLES
  ledger,                    \* agent id -> balance (cents)
  products,                  \* agent id -> product id -> [present, amount]
  firm_id,                   \* the list of registered firm ids
  tx_history,                \* the transaction log
  firm_financials,           \* agent id -> [total_income, total_expenses], created on first use
  firm_monthly_financials,   \* firm -> month -> [income, expenses]
  corporate_tax_settled_months,
  inventory_reservations,    \* reservation id (index) -> reservation
  unmet_demand_by_month,     \* <<month, product, seller>> -> counters
  now,                       \* wall clock, seconds
  updates,                   \* number of update_balance calls so far
  redistribution_record_per_person,   \* month -> average amount redistributed
  last,                      \* the last call and what it returned
  \* LaborMarket
  job_openings,              \* list of jobs; a job's id is its position
  job_applications,          \* list of applications, in submission order
  backup_candidates,         \* list of [job_id, candidates, cursor], in insertion order
  offers,                    \* list of offers, in creation order; an offer's id is its position
  matched_jobs,              \* list of [job_id, worker]
  matched_workers            \* set of matched workers

centerVars == << ledger, products, firm_id, tx_history, firm_financials,
                 firm_monthly_financials,
                 corporate_tax_settled_months, inventory_reservations,
                 unmet_demand_by_month, now, updates,
                 redistribution_record_per_person >>

laborVars == << job_openings, job_applications, backup_candidates, offers,
                matched_jobs, matched_workers >>

vars == << centerVars, laborVars, last >>

\* ids a caller can hold: those handed out so far, and one never handed out
ReservationIds == (1..Len(inventory_reservations)) \cup {UnknownRes}

\* ----------------------------------------------------------------- helpers
Max(a, b) == IF a >= b THEN a ELSE b
Min(a, b) == IF a <= b THEN a ELSE b

RECURSIVE SumOver(_, _)
SumOver(f, S) ==
  IF S = {} THEN 0
  ELSE LET x == CHOOSE y \in S : TRUE IN f[x] + SumOver(f, S \ {x})

InSeq(x, s) == \E i \in DOMAIN s : s[i] = x

\* The last call: its name, whether it returned success, whether it ended by
\* raising an exception, and its arguments.
Call(op, ok) ==
  [op |-> op, ok |-> ok, raised |-> FALSE, who |-> "", rid |-> NoRes, month |-> 0,
   qty |-> 0]

\* a transaction; of its metadata the reservation a purchase was made on is kept
Tx(sender, receiver, amount, type, month) ==
  [sender_id |-> sender, receiver_id |-> receiver, amount |-> amount,
   type |-> type, month |-> month, reservation_id |-> NoRes]

\* --------------------------------------------------------- initial state
\* every variable but the record of the last call
InitState ==
  /\ job_openings = << >>
  /\ job_applications = << >>
  /\ backup_candidates = << >>
  /\ offers = << >>
  /\ matched_jobs = << >>
  /\ matched_workers = {}
  /\ ledger = [a \in AgentIds |->
                 CASE a = "h1" -> 30000
                   [] a = "h2" -> 10000
                   [] a = gov_id -> 20000
                   [] OTHER -> 0]
  /\ firm_financials = [a \in {} |-> [total_income |-> 0, total_expenses |-> 0]]
  /\ products = [a \in AgentIds |-> [p \in ProductIds |->
                   IF a \in FirmIds THEN [present |-> TRUE, amount |-> 3]
                   ELSE [present |-> FALSE, amount |-> 0]]]
  /\ firm_id = << "f1", "f2" >>
  /\ tx_history = << >>
  /\ firm_monthly_financials =
       [f \in AgentIds |-> [m \in Months |-> [income |-> 0, expenses |-> 0]]]
  /\ corporate_tax_settled_months = {}
  /\ inventory_reservations = << >>
  /\ unmet_demand_by_month =
       [k \in Months \X ProductIds \X FirmIds |->
          [attempts |-> 0, qty_requested |-> 0, qty_short |-> 0]]
  /\ now = 0
  /\ updates = 0
  /\ redistribution_record_per_person = [m \in Months |-> 0]

Init ==
  /\ InitState
  /\ last = Call("init", TRUE)

\* ===================================================================
\* Inventory reservation system
\* ===================================================================
ActualStock(prod, s, p) == IF prod[s][p].present THEN prod[s][p].amount ELSE 0

RECURSIVE ReservedQuantity(_, _, _, _)
ReservedQuantity(res, s, p, t) ==
  IF res = << >> THEN 0
  ELSE (IF /\ Head(res).seller_id = s
           /\ Head(res).product_id = p
           /\ Head(res).status = "active"
           /\ t <= Head(res).expires_at
        THEN Head(res).quantity ELSE 0)
       + ReservedQuantity(Tail(res), s, p, t)

\* a stock query that forgets the reservations
AvailableIgnoringReservations(prod, res, s, p, t) == ActualStock(prod, s, p)

\* available = actual stock - quantity of the active reservations, never negative
_get_available_stock(prod, res, s, p, t) ==
  Max(0, ActualStock(prod, s, p) - ReservedQuantity(res, s, p, t))

_cleanup_expired_reservations(res, t) ==
  [i \in DOMAIN res |->
     IF res[i].status = "active" /\ t > res[i].expires_at
     THEN [res[i] EXCEPT !.status = "expired"] ELSE res[i]]

InventoryReservation_create(b, s, p, q, t, timeout) ==
  [buyer_id |-> b, seller_id |-> s, product_id |-> p, quantity |-> q,
   created_at |-> t, expires_at |-> t + timeout, status |-> "active"]

record_unmet_demand(unmet, m, s, p, q, available) ==
  LET qty_req == Max(0, q)
      avail == Max(0, available)
      qty_short == Max(0, qty_req - avail)
      key == << m, p, s >>
  IN IF m <= 0 \/ qty_req <= 0 THEN unmet
     ELSE [unmet EXCEPT ![key] = [attempts |-> @.attempts + 1,
                                  qty_requested |-> @.qty_requested + qty_req,
                                  qty_short |-> @.qty_short + qty_short]]

\* a confirmation that never looks at the clock
ConfirmIgnoringExpiry(res, rid, t) ==
  IF rid \notin DOMAIN res THEN [res |-> res, ok |-> FALSE]
  ELSE IF res[rid].status # "active" THEN [res |-> res, ok |-> FALSE]
  ELSE [res |-> [res EXCEPT ![rid].status = "confirmed"], ok |-> TRUE]
\* confirm_reservation: the new reservation table and the returned flag
confirm_reservation(res, rid, t) ==
  IF rid \notin DOMAIN res THEN [res |-> res, ok |-> FALSE]
  ELSE IF res[rid].status # "active" THEN [res |-> res, ok |-> FALSE]
  ELSE IF t > res[rid].expires_at
       THEN [res |-> [res EXCEPT ![rid].status = "expired"], ok |-> FALSE]
  ELSE [res |-> [res EXCEPT ![rid].status = "confirmed"], ok |-> TRUE]

\* a validation that accepts a reservation in any status
ValidateAnyStatus(res0, rid, b, s, p, q, t) ==
  IF rid \notin DOMAIN res0 THEN [res |-> res0, ok |-> FALSE]
  ELSE [res |-> res0,
        ok |-> /\ res0[rid].buyer_id = b /\ res0[rid].seller_id = s
               /\ res0[rid].product_id = p /\ res0[rid].quantity = q]

validate_reservation(res0, rid, b, s, p, q, t) ==
  LET res == _cleanup_expired_reservations(res0, t)
  IN IF rid \notin DOMAIN res THEN [res |-> res, ok |-> FALSE]
     ELSE IF res[rid].status # "active" THEN [res |-> res, ok |-> FALSE]
     ELSE IF t > res[rid].expires_at
          THEN [res |-> [res EXCEPT ![rid].status = "expired"], ok |-> FALSE]
     ELSE IF res[rid].buyer_id # b THEN [res |-> res, ok |-> FALSE]
     ELSE IF res[rid].seller_id # s THEN [res |-> res, ok |-> FALSE]
     ELSE IF res[rid].product_id # p THEN [res |-> res, ok |-> FALSE]
     ELSE IF res[rid].quantity # q THEN [res |-> res, ok |-> FALSE]
     ELSE [res |-> res, ok |-> TRUE]

\* a release that puts the reservation back into the active state
ReleaseReopens(res, rid) ==
  IF rid \notin DOMAIN res THEN [res |-> res, ok |-> FALSE]
  ELSE [res |-> [res EXCEPT ![rid].status = "active"], ok |-> TRUE]

release_reservation(res, rid) ==
  IF rid \notin DOMAIN res THEN [res |-> res, ok |-> FALSE]
  ELSE [res |-> [res EXCEPT ![rid].status = "released"], ok |-> TRUE]

reserve_inventory(b, s, p, q, m) ==
  LET res == _cleanup_expired_reservations(inventory_reservations, now)
      available_stock == _get_available_stock(products, res, s, p, now)
  IN IF available_stock < q
     THEN /\ m # NoMonth => unmet_demand_by_month[<< m, p, s >>].attempts < MaxUnmet
          /\ inventory_reservations' = res
          /\ unmet_demand_by_month' =
               IF m # NoMonth
               THEN record_unmet_demand(unmet_demand_by_month, m, s, p, q, available_stock)
               ELSE unmet_demand_by_month
          /\ last' = [Call("reserve_inventory", FALSE) EXCEPT
                        !.who = b, !.qty = q, !.month = m]
     ELSE /\ Len(res) < MaxRes
          /\ inventory_reservations' =
               Append(res, InventoryReservation_create(b, s, p, q, now, reservation_timeout))
          /\ UNCHANGED unmet_demand_by_month
          /\ last' = [Call("reserve_inventory", TRUE) EXCEPT
                        !.who = b, !.qty = q, !.month = m,
                        !.rid = Len(res) + 1]

ReserveInventory ==
  \E b \in HouseholdIds, s \in FirmIds, p \in ProductIds, q \in Quantities,
     m \in TradeMonths \cup {NoMonth} :
    /\ reserve_inventory(b, s, p, q, m)
    /\ UNCHANGED << ledger, products, firm_id, firm_financials, redistribution_record_per_person, laborVars, tx_history, firm_monthly_financials,
                    corporate_tax_settled_months, now, updates >>

ConfirmReservation ==
  \E rid \in ReservationIds :
    LET r == confirm_reservation(inventory_reservations, rid, now)
    IN /\ inventory_reservations' = r.res
       /\ last' = [Call("confirm_reservation", r.ok) EXCEPT !.rid = rid]
       /\ UNCHANGED << ledger, products, firm_id, firm_financials, redistribution_record_per_person, laborVars, tx_history, firm_monthly_financials,
                       corporate_tax_settled_months, unmet_demand_by_month, now, updates >>

ValidateReservation ==
  \E rid \in ReservationIds, b \in {"h1"}, s \in FirmIds, p \in ProductIds,
     q \in Quantities :
    LET r == validate_reservation(inventory_reservations, rid, b, s, p, q, now)
    IN /\ inventory_reservations' = r.res
       /\ last' = [Call("validate_reservation", r.ok) EXCEPT !.rid = rid]
       /\ UNCHANGED << ledger, products, firm_id, firm_financials, redistribution_record_per_person, laborVars, tx_history, firm_monthly_financials,
                       corporate_tax_settled_months, unmet_demand_by_month, now, updates >>

ReleaseReservation ==
  \E rid \in ReservationIds :
    LET r == release_reservation(inventory_reservations, rid)
    IN /\ inventory_reservations' = r.res
       /\ last' = [Call("release_reservation", r.ok) EXCEPT !.rid = rid]
       /\ UNCHANGED << ledger, products, firm_id, firm_financials, redistribution_record_per_person, laborVars, tx_history, firm_monthly_financials,
                       corporate_tax_settled_months, unmet_demand_by_month, now, updates >>

\* time.time() advances
Tick ==
  /\ now < MaxTicks * TickSeconds
  /\ now' = now + TickSeconds
  /\ last' = Call("tick", TRUE)
  /\ UNCHANGED << ledger, products, firm_id, firm_financials, redistribution_record_per_person, laborVars, tx_history, firm_monthly_financials,
                  corporate_tax_settled_months, inventory_reservations,
                  unmet_demand_by_month, updates >>

\* consume_product_inventory: the new product table and the returned flag
consume_product_inventory(prod, f, p, q) ==
  IF ~prod[f][p].present THEN [products |-> prod, ok |-> FALSE]
  ELSE IF prod[f][p].amount >= q
       THEN [products |-> [prod EXCEPT ![f][p].amount = @ - q], ok |-> TRUE]
  ELSE [products |-> prod, ok |-> FALSE]

ConsumeProductInventory ==
  \E f \in FirmIds, p \in ProductIds, q \in {2} :
    LET r == consume_product_inventory(products, f, p, q)
    IN /\ products' = r.products
       /\ last' = [Call("consume_product_inventory", r.ok) EXCEPT !.qty = q]
       /\ UNCHANGED << ledger, firm_id, firm_financials, redistribution_record_per_person, laborVars, tx_history, firm_monthly_financials,
                       corporate_tax_settled_months, inventory_reservations,
                       unmet_demand_by_month, now, updates >>

\* ===================================================================
\* Ledger, transaction log and the money-moving operations
\* ===================================================================
\* a rate that is never applied
NoTax(amount, rate) == 0

\* a share that takes the rate as a factor instead of a percentage
PctAsFactor(amount, rate) == amount * rate
Pct(amount, rate) == (amount * rate) \div 100

\* a balance update that drops withdrawals
CreditDepositsOnly(led, a, amount) ==
  IF amount < 0 THEN led ELSE [led EXCEPT ![a] = @ + amount]

\* balance[a] += amount
Credit(led, a, amount) == [led EXCEPT ![a] = @ + amount]

\* _record_transaction: append to tx_history
_record_transaction(hist, sender, receiver, amount, type, month) ==
  Append(hist, Tx(sender, receiver, amount, type, month))

record_firm_monthly_income(fin, f, m, amount) ==
  [fin EXCEPT ![f][m].income = @ + amount]

record_firm_monthly_expense(fin, f, m, amount) ==
  [fin EXCEPT ![f][m].expenses = @ + amount]

\* record_firm_income and record_firm_expense: the center calls each of them right
\* beside the monthly record of the same firm and amount, so the totals after a
\* handler are the totals before it plus what the handler added to the monthly
\* table fin, which became fin2; the entry of a firm is created by its first record
record_firm_income_and_expense(totals, fin, fin2) ==
  LET touched == {a \in AgentIds : fin2[a] # fin[a]}
      old(a) == IF a \in DOMAIN totals THEN totals[a]
                ELSE [total_income |-> 0, total_expenses |-> 0]
  IN [a \in DOMAIN totals \cup touched |->
        [total_income |->
           old(a).total_income
             + SumOver([m \in Months |-> fin2[a][m].income - fin[a][m].income], Months),
         total_expenses |->
           old(a).total_expenses
             + SumOver([m \in Months |-> fin2[a][m].expenses - fin[a][m].expenses], Months)]]

_add_or_merge_product(prod, a, p, q) ==
  IF prod[a][p].present THEN [prod EXCEPT ![a][p].amount = @ + q]
  ELSE [prod EXCEPT ![a][p] = [present |-> TRUE, amount |-> q]]

\* _reduce_or_remove_product: raises when the product is missing or short
_reduce_or_remove_product(prod, a, p, q) ==
  IF prod[a][p].present /\ prod[a][p].amount >= q
  THEN [products |-> [prod EXCEPT ![a][p].amount = @ - q], raised |-> FALSE]
  ELSE [products |-> prod, raised |-> TRUE]

_check_and_reserve_inventory(prod, res, s, p, q, t) ==
  _get_available_stock(prod, res, s, p, t) >= q

\* process_purchase after the funds and stock checks: pay, log, move the goods,
\* then confirm the reservation at time t2 (release it if the goods transfer
\* raised). The transaction asset is a Product of amount q, which the Product
\* model refuses for q < 0 in the first construction and in the fallback: the
\* call then ends with that exception after the buyer has paid and the tax has
\* been logged and credited.
PayAndTransfer(m, b, s, p, price, q, rid, res, t2) ==
  LET base_price == price * q
      tax_amount == Pct(base_price, vat_rate_pct)
      total_cost_with_tax == base_price + tax_amount
      led1 == Credit(ledger, b, -total_cost_with_tax)
      hist1 == _record_transaction(tx_history, b, gov_id, tax_amount, "consume_tax", m)
      led2 == Credit(led1, gov_id, tax_amount)
      purchase_tx == _record_transaction(hist1, b, s, base_price, "purchase", m)
      hist2 == [purchase_tx EXCEPT ![Len(purchase_tx)].reservation_id = rid]
      led3 == Credit(led2, s, base_price)
      prod1 == _add_or_merge_product(products, b, p, q)
      red == _reduce_or_remove_product(prod1, s, p, q)
  IN IF q < 0
     THEN /\ ledger' = led2
          /\ tx_history' = hist1
          /\ last' = [Call("process_purchase", FALSE) EXCEPT
                        !.who = b, !.rid = rid, !.qty = q, !.raised = TRUE]
          /\ inventory_reservations' = res
          /\ UNCHANGED << firm_monthly_financials, products, now, unmet_demand_by_month >>
     ELSE
     /\ ledger' = led3
     /\ tx_history' = hist2
     /\ firm_monthly_financials' =
          record_firm_monthly_income(firm_monthly_financials, s, m, base_price)
     /\ products' = red.products
     /\ IF red.raised
        THEN /\ inventory_reservations' =
                  IF rid # NoRes THEN release_reservation(res, rid).res ELSE res
             /\ now' = now
             /\ last' = [Call("process_purchase", FALSE) EXCEPT
                           !.who = b, !.rid = rid, !.qty = q]
        ELSE /\ inventory_reservations' =
                  IF rid # NoRes THEN confirm_reservation(res, rid, t2).res ELSE res
             /\ now' = IF rid # NoRes THEN t2 ELSE now
             /\ last' = [Call("process_purchase", TRUE) EXCEPT
                           !.who = b, !.rid = rid, !.qty = q]
     /\ UNCHANGED unmet_demand_by_month

process_purchase(m, b, s, p, price, q, rid, t2) ==
  LET base_price == price * q
      total_cost_with_tax == base_price + Pct(base_price, vat_rate_pct)
      failed == [Call("process_purchase", FALSE) EXCEPT
                   !.who = b, !.rid = rid]
  IN IF ledger[b] < total_cost_with_tax
     THEN /\ inventory_reservations' =
               IF rid # NoRes THEN release_reservation(inventory_reservations, rid).res
               ELSE inventory_reservations
          /\ last' = failed
          /\ UNCHANGED << ledger, products, tx_history, firm_monthly_financials,
                          unmet_demand_by_month, now >>
     ELSE IF rid # NoRes
     THEN LET v == validate_reservation(inventory_reservations, rid, b, s, p, q, now)
          IN IF ~v.ok
             THEN /\ inventory_reservations' = release_reservation(v.res, rid).res
                  /\ last' = failed
                  /\ UNCHANGED << ledger, products, tx_history, firm_monthly_financials,
                                  unmet_demand_by_month, now >>
             ELSE /\ Len(tx_history) + 2 <= MaxTx
                  /\ PayAndTransfer(m, b, s, p, price, q, rid, v.res, t2)
     ELSE IF ~_check_and_reserve_inventory(products, inventory_reservations, s, p, q, now)
     THEN /\ unmet_demand_by_month[<< m, p, s >>].attempts < MaxUnmet
          /\ unmet_demand_by_month' =
               record_unmet_demand(unmet_demand_by_month, m, s, p, q,
                                   ActualStock(products, s, p))
          /\ last' = failed
          /\ UNCHANGED << ledger, products, tx_history, firm_monthly_financials,
                          inventory_reservations, now >>
     ELSE /\ Len(tx_history) + 2 <= MaxTx
          /\ PayAndTransfer(m, b, s, p, price, q, rid, inventory_reservations, now)

\* d is the time that passes between validate_reservation and confirm_reservation
ProcessPurchase ==
  \E m \in TradeMonths, b \in HouseholdIds, s \in FirmIds, p \in ProductIds,
     price \in Prices, q \in Quantities, rid \in {NoRes} \cup ReservationIds,
     d \in {0, TickSeconds} :
    /\ now + d <= MaxTicks * TickSeconds
    /\ rid \notin 1..Len(inventory_reservations) => d = 0
    /\ process_purchase(m, b, s, p, price, q, rid, now + d)
    /\ firm_financials' = record_firm_income_and_expense(firm_financials,
         firm_monthly_financials, firm_monthly_financials')
    /\ UNCHANGED << firm_id, redistribution_record_per_person, laborVars, corporate_tax_settled_months, updates >>

\* process_purchase with a registered firm as the buyer
ProcessPurchaseByFirm ==
  \E m \in TradeMonths, b \in FirmBuyers, s \in FirmIds, p \in ProductIds,
     price \in Prices, q \in Quantities :
    /\ process_purchase(m, b, s, p, price, q, NoRes, now)
    /\ firm_financials' = record_firm_income_and_expense(firm_financials,
         firm_monthly_financials, firm_monthly_financials')
    /\ UNCHANGED << firm_id, redistribution_record_per_person, laborVars, corporate_tax_settled_months, updates >>

\* process_purchase without a reservation, for a quantity that is not positive
ProcessPurchaseOfAnyQuantity ==
  \E m \in TradeMonths, b \in HouseholdIds \cup FirmBuyers, s \in FirmIds,
     p \in ProductIds, price \in Prices, q \in {0, -1} :
    /\ process_purchase(m, b, s, p, price, q, NoRes, now)
    /\ firm_financials' = record_firm_income_and_expense(firm_financials,
         firm_monthly_financials, firm_monthly_financials')
    /\ UNCHANGED << firm_id, redistribution_record_per_person, laborVars, corporate_tax_settled_months, updates >>

\* ----------------------------------------------------------- income tax
\* a tax that applies every bracket's rate to all the wage above its cutoff
RECURSIVE TaxWithoutUpperBound(_, _, _)
TaxWithoutUpperBound(brackets, i, gross_wage) ==
  IF i > Len(brackets) THEN 0
  ELSE IF gross_wage > brackets[i].cutoff
       THEN Pct(gross_wage - brackets[i].cutoff, brackets[i].rate)
            + TaxWithoutUpperBound(brackets, i + 1, gross_wage)
       ELSE 0

\* a tax that charges only the part of the wage in the highest bracket reached
RECURSIVE TaxTopBracketOnly(_, _, _)
TaxTopBracketOnly(brackets, i, gross_wage) ==
  IF i > Len(brackets) THEN 0
  ELSE IF gross_wage > brackets[i].cutoff
       THEN IF i + 1 <= Len(brackets) /\ gross_wage > brackets[i + 1].cutoff
            THEN TaxTopBracketOnly(brackets, i + 1, gross_wage)
            ELSE Pct(gross_wage - brackets[i].cutoff, brackets[i].rate)
       ELSE 0

\* the loop of calculate_progressive_income_tax over the brackets, from position i
RECURSIVE TaxFrom(_, _, _)
TaxFrom(brackets, i, gross_wage) ==
  IF i > Len(brackets) THEN 0
  ELSE IF gross_wage > brackets[i].cutoff
       THEN LET upper == IF i + 1 <= Len(brackets)
                         THEN Min(gross_wage, brackets[i + 1].cutoff)
                         ELSE gross_wage
            IN Pct(upper - brackets[i].cutoff, brackets[i].rate)
               + TaxFrom(brackets, i + 1, gross_wage)
       ELSE 0

calculate_progressive_income_tax(gross_wage) == TaxFrom(income_tax_rate, 1, gross_wage)

\* The tax policies a center is constructed with: cutoffs ascending, in cents,
\* rates in percent.
ExampleBrackets ==
  << [cutoff |-> 0, rate |-> 10], [cutoff |-> 1000000, rate |-> 15] >>

MainExampleBrackets ==
  << [cutoff |-> 0,       rate |-> 10],
     [cutoff |-> 100000,  rate |-> 15],
     [cutoff |-> 400000,  rate |-> 22],
     [cutoff |-> 850000,  rate |-> 24],
     [cutoff |-> 1600000, rate |-> 32],
     [cutoff |-> 2000000, rate |-> 35] >>

income_tax_brackets ==
  << [cutoff |-> 0,        rate |-> 10],
     [cutoff |-> 1000000,  rate |-> 12],
     [cutoff |-> 4000000,  rate |-> 22],
     [cutoff |-> 8500000,  rate |-> 24],
     [cutoff |-> 16500000, rate |-> 32],
     [cutoff |-> 21500000, rate |-> 35],
     [cutoff |-> 54000000, rate |-> 37] >>

TaxPolicies ==
  { income_tax_rate, ExampleBrackets, MainExampleBrackets, income_tax_brackets,
    << [cutoff |-> 0, rate |-> 10] >>,
    << [cutoff |-> 500000, rate |-> 20], [cutoff |-> 1000000, rate |-> 0] >>,
    << [cutoff |-> 0, rate |-> 10], [cutoff |-> 1000000, rate |-> 15],
       [cutoff |-> 1000000, rate |-> 30] >> }

GrossWages ==
  { 0, 100, 50000, 100000, 410000, 500000, 850000, 1000000, 1000100, 1500000,
    2500000, 4000000, 4100000, 8500000, 9000000, 16000000, 20000000, 25000000,
    60000000 }

\* the record of a tax computation: the policy of the center, the wage asked
\* about, the tax returned, and the wage and tax of the computation before it
TaxCall(brackets, gross_wage, tax, prev_gross_wage, prev_tax) ==
  [op |-> "calculate_progressive_income_tax", ok |-> TRUE, income_tax_rate |-> brackets,
   gross_wage |-> gross_wage, tax |-> tax,
   prev_gross_wage |-> prev_gross_wage, prev_tax |-> prev_tax]

\* a center constructed with one of the tax policies
InitTax ==
  /\ InitState
  /\ \E brackets \in TaxPolicies :
       last = [op |-> "init", ok |-> TRUE, income_tax_rate |-> brackets]

CalculateProgressiveIncomeTax ==
  \E gross_wage \in GrossWages :
    LET brackets == last.income_tax_rate
        tax == TaxFrom(brackets, 1, gross_wage)
        first == last.op = "init"
    IN /\ last' = TaxCall(brackets, gross_wage, tax,
                          IF first THEN gross_wage ELSE last.gross_wage,
                          IF first THEN tax ELSE last.tax)
       /\ UNCHANGED << centerVars, laborVars >>

\* a wage payment that charges the firm the net wage only
PayNetFromFirm(led, hist, fin, m, wage_hour, h, f, hours_per_period, periods_per_month) ==
  LET gross_wage == wage_hour * Max(0, hours_per_period) * Max(0, periods_per_month)
      income_tax == calculate_progressive_income_tax(gross_wage)
      net_wage == Max(0, gross_wage - income_tax)
  IN [ledger |-> Credit(Credit(Credit(led, h, net_wage), gov_id, income_tax), f, -net_wage),
      hist |-> _record_transaction(_record_transaction(hist, f, h, net_wage, "labor_payment", m),
                                   h, gov_id, income_tax, "labor_tax", m),
      fin |-> record_firm_monthly_expense(fin, f, m, gross_wage)]

\* the body of process_wage on a ledger, a transaction log and the monthly records
PayWage(led, hist, fin, m, wage_hour, h, f, hours_per_period, periods_per_month) ==
  LET hours == Max(0, hours_per_period)
      ppm == Max(0, periods_per_month)
      gross_wage == wage_hour * hours * ppm
      income_tax == calculate_progressive_income_tax(gross_wage)
      net_wage == Max(0, gross_wage - income_tax)
      hist1 == _record_transaction(hist, f, h, net_wage, "labor_payment", m)
      hist2 == _record_transaction(hist1, h, gov_id, income_tax, "labor_tax", m)
      led1 == Credit(led, h, net_wage)
      led2 == Credit(led1, gov_id, income_tax)
      led3 == Credit(led2, f, -gross_wage)
  IN [ledger |-> led3, hist |-> hist2,
      fin |-> record_firm_monthly_expense(fin, f, m, gross_wage)]

process_wage(m, wage_hour, h, f, hours_per_period, periods_per_month) ==
  LET r == PayWage(ledger, tx_history, firm_monthly_financials, m, wage_hour, h, f,
                   hours_per_period, periods_per_month)
  IN /\ tx_history' = r.hist
     /\ ledger' = r.ledger
     /\ firm_monthly_financials' = r.fin
     /\ last' = [Call("process_wage", TRUE) EXCEPT
                   !.who = h, !.month = m]

WageHours == {500}          \* wage_hour, cents
ProcessWage ==
  \E m \in TradeMonths, w \in WageHours, h \in HouseholdIds, f \in FirmIds :
    /\ Len(tx_history) + 2 <= MaxTx
    /\ process_wage(m, w, h, f, 40, 4)
    /\ firm_financials' = record_firm_income_and_expense(firm_financials,
         firm_monthly_financials, firm_monthly_financials')
    /\ UNCHANGED << products, firm_id, redistribution_record_per_person, laborVars, corporate_tax_settled_months,
                    inventory_reservations, unmet_demand_by_month, now, updates >>

\* register_id(agent_id, 'firm'): the id is appended to self.firm_id, whether
\* or not the list already holds it
RegisterId ==
  \E agent_id \in FirmIds :
    /\ Len(firm_id) < MaxFirmIds
    /\ firm_id' = Append(firm_id, agent_id)
    /\ last' = [Call("register_id", TRUE) EXCEPT !.who = agent_id]
    /\ UNCHANGED << ledger, products, firm_financials, redistribution_record_per_person,
                    laborVars, tx_history, firm_monthly_financials,
                    corporate_tax_settled_months, inventory_reservations,
                    unmet_demand_by_month, now, updates >>

\* ------------------------------------------------------- corporate tax
\* the loop over self.firm_id of settle_monthly_corporate_tax, from position i;
\* results maps every firm visited to the tax it was charged
RECURSIVE SettleFrom(_, _, _, _, _, _)
SettleFrom(i, m, led, fin, hist, results) ==
  IF i > Len(firm_id) THEN [ledger |-> led, fin |-> fin, hist |-> hist, results |-> results]
  ELSE LET f == firm_id[i]
           income == fin[f][m].income
           expenses_pre_tax == fin[f][m].expenses
           taxable_profit == Max(0, income - expenses_pre_tax)
           corporate_tax == Pct(taxable_profit, corporate_tax_rate_pct)
       IN IF corporate_tax <= 0
          THEN SettleFrom(i + 1, m, led, fin, hist, (f :> 0) @@ results)
          ELSE SettleFrom(i + 1, m,
                 Credit(Credit(led, f, -corporate_tax), gov_id, corporate_tax),
                 record_firm_monthly_expense(fin, f, m, corporate_tax),
                 _record_transaction(hist, f, gov_id, corporate_tax, "corporate_tax", m),
                 (f :> corporate_tax) @@ results)

\* the guard "month in self._corporate_tax_settled_months"
AlreadySettled(settled, m) == m \in settled

\* the call record of a settlement with the dictionary it returned
SettleCall(m, results) ==
  [op |-> "settle_monthly_corporate_tax", ok |-> TRUE, who |-> "", rid |-> NoRes,
   month |-> m, qty |-> 0, results |-> results]

settle_monthly_corporate_tax(m) ==
  IF AlreadySettled(corporate_tax_settled_months, m)
  THEN /\ last' = SettleCall(m, << >>)
       /\ UNCHANGED << ledger, firm_monthly_financials, tx_history,
                       corporate_tax_settled_months >>
  ELSE LET r == SettleFrom(1, m, ledger, firm_monthly_financials, tx_history, << >>)
       IN /\ Len(r.hist) <= MaxTx
          /\ ledger' = r.ledger
          /\ firm_monthly_financials' = r.fin
          /\ tx_history' = r.hist
          /\ corporate_tax_settled_months' = corporate_tax_settled_months \cup {m}
          /\ last' = SettleCall(m, r.results)

SettleMonthlyCorporateTax ==
  \E m \in Months :
    /\ settle_monthly_corporate_tax(m)
    /\ firm_financials' = record_firm_income_and_expense(firm_financials,
         firm_monthly_financials, firm_monthly_financials')
    /\ UNCHANGED << products, firm_id, redistribution_record_per_person, laborVars, inventory_reservations, unmet_demand_by_month,
                    now, updates >>

\* ------------------------------------------- service / resource payments
Amounts == {10000}

\* add_tx_service: raises for a non-firm sender without the funds
add_tx_service(m, sender, receiver, amount) ==
  LET is_company == InSeq(sender, firm_id)
  IN IF ~is_company /\ ledger[sender] < amount
     THEN /\ last' = [Call("add_tx_service", FALSE) EXCEPT
                        !.who = sender, !.month = m, !.raised = TRUE]
          /\ UNCHANGED << ledger, tx_history >>
     ELSE /\ Len(tx_history) + 1 <= MaxTx
          /\ ledger' = Credit(Credit(ledger, sender, -amount), receiver, amount)
          /\ tx_history' = _record_transaction(tx_history, sender, receiver, amount, "service", m)
          /\ last' = [Call("add_tx_service", TRUE) EXCEPT
                        !.who = sender, !.month = m]

AddTxService ==
  \E m \in TradeMonths, sender \in {"h2"} \cup FirmIds, amount \in Amounts :
    /\ add_tx_service(m, sender, gov_id, amount)
    /\ UNCHANGED << products, firm_id, firm_financials, redistribution_record_per_person, laborVars, firm_monthly_financials, corporate_tax_settled_months,
                    inventory_reservations, unmet_demand_by_month, now, updates >>

record_resource_purchase(m, buyer, total_cost, receiver) ==
  LET is_company == InSeq(buyer, firm_id)
      call(ok) == [Call("record_resource_purchase", ok) EXCEPT
                     !.who = buyer, !.month = m, !.qty = total_cost]
  IN IF total_cost <= 0
     THEN /\ last' = call(FALSE)
          /\ UNCHANGED << ledger, tx_history, firm_monthly_financials >>
     ELSE IF ~is_company /\ ledger[buyer] < total_cost
     THEN /\ last' = [call(FALSE) EXCEPT !.raised = TRUE]
          /\ UNCHANGED << ledger, tx_history, firm_monthly_financials >>
     ELSE /\ Len(tx_history) + 1 <= MaxTx
          /\ ledger' = Credit(Credit(ledger, buyer, -total_cost), receiver, total_cost)
          /\ firm_monthly_financials' =
               IF is_company
               THEN record_firm_monthly_expense(firm_monthly_financials, buyer, m, total_cost)
               ELSE firm_monthly_financials
          /\ tx_history' = _record_transaction(tx_history, buyer, receiver, total_cost,
                                               "resource_purchase", m)
          /\ last' = call(TRUE)

RecordResourcePurchase ==
  \E m \in TradeMonths, buyer \in FirmIds \cup {"h2"}, total_cost \in Amounts \cup {0} :
    /\ record_resource_purchase(m, buyer, total_cost, market_resource)
    /\ firm_financials' = record_firm_income_and_expense(firm_financials,
         firm_monthly_financials, firm_monthly_financials')
    /\ UNCHANGED << products, firm_id, redistribution_record_per_person, laborVars, corporate_tax_settled_months,
                    inventory_reservations, unmet_demand_by_month, now, updates >>

\* ---------------------------------------- inherent market / procurement
\* the inventory step shared by the two operations: raises when the product is
\* missing or short and consume_inventory is set
ConsumeForSale(prod, receiver, p, q, consume_inventory) ==
  IF ~consume_inventory THEN [products |-> prod, raised |-> FALSE]
  ELSE IF ~prod[receiver][p].present THEN [products |-> prod, raised |-> TRUE]
  ELSE IF prod[receiver][p].amount < q THEN [products |-> prod, raised |-> TRUE]
  ELSE [products |-> [prod EXCEPT ![receiver][p].amount = Max(0, @ - q)],
        raised |-> FALSE]

add_inherent_market_transaction(m, sender, receiver, amount, p, q, consume_inventory) ==
  LET is_company == InSeq(sender, firm_id)
      inv == ConsumeForSale(products, receiver, p, q, consume_inventory)
      tax_amount == Pct(amount, vat_rate_pct)
      led1 == Credit(Credit(ledger, sender, -amount), receiver, amount)
      led2 == IF tax_amount > 0
              THEN Credit(Credit(led1, sender, -tax_amount), gov_id, tax_amount)
              ELSE led1
      hist1 == IF tax_amount > 0
               THEN _record_transaction(tx_history, sender, gov_id, tax_amount, "consume_tax", m)
               ELSE tx_history
      hist2 == _record_transaction(hist1, sender, receiver, amount, "inherent_market", m)
      call(ok) == [Call("add_inherent_market_transaction", ok) EXCEPT
                     !.who = sender, !.qty = q,
                     !.month = m, !.raised = ~ok]
  IN IF (~is_company /\ ledger[sender] < amount) \/ inv.raised
     THEN /\ last' = call(FALSE)
          /\ UNCHANGED << ledger, products, tx_history, firm_monthly_financials >>
     ELSE /\ Len(hist2) <= MaxTx
          /\ products' = inv.products
          /\ ledger' = led2
          /\ tx_history' = hist2
          /\ firm_monthly_financials' =
               record_firm_monthly_income(firm_monthly_financials, receiver, m, amount)
          /\ last' = call(TRUE)

AddInherentMarketTransaction ==
  \E m \in TradeMonths, sender \in {gov_id, "h2"}, receiver \in FirmIds, amount \in Amounts,
     p \in ProductIds, q \in {1}, consume_inventory \in BOOLEAN :
    /\ add_inherent_market_transaction(m, sender, receiver, amount, p, q, consume_inventory)
    /\ firm_financials' = record_firm_income_and_expense(firm_financials,
         firm_monthly_financials, firm_monthly_financials')
    /\ UNCHANGED << firm_id, redistribution_record_per_person, laborVars, corporate_tax_settled_months, inventory_reservations,
                    unmet_demand_by_month, now, updates >>

add_government_procurement_transaction(m, sender, receiver, amount, p, q, consume_inventory) ==
  LET is_company == InSeq(sender, firm_id)
      inv == ConsumeForSale(products, receiver, p, q, consume_inventory)
      call(ok) == [Call("add_government_procurement_transaction", ok) EXCEPT
                     !.who = sender, !.qty = q,
                     !.month = m, !.raised = ~ok]
  IN IF (~is_company /\ ledger[sender] < amount) \/ inv.raised
     THEN /\ last' = call(FALSE)
          /\ UNCHANGED << ledger, products, tx_history, firm_monthly_financials >>
     ELSE /\ Len(tx_history) + 1 <= MaxTx
          /\ products' = inv.products
          /\ ledger' = Credit(Credit(ledger, sender, -amount), receiver, amount)
          /\ firm_monthly_financials' =
               record_firm_monthly_income(firm_monthly_financials, receiver, m, amount)
          /\ tx_history' = _record_transaction(tx_history, sender, receiver, amount,
                                               "government_procurement", m)
          /\ last' = call(TRUE)

AddGovernmentProcurementTransaction ==
  \E m \in Months, receiver \in FirmIds, amount \in Amounts, p \in ProductIds,
     q \in {2} :
    /\ add_government_procurement_transaction(m, gov_id, receiver, amount, p, q, TRUE)
    /\ firm_financials' = record_firm_income_and_expense(firm_financials,
         firm_monthly_financials, firm_monthly_financials')
    /\ UNCHANGED << firm_id, redistribution_record_per_person, laborVars, corporate_tax_settled_months, inventory_reservations,
                    unmet_demand_by_month, now, updates >>

\* ------------------------------------------------------- update_balance
update_balance(led, a, amount) == Credit(led, a, amount)

\* a withdrawal, and a deposit that levels the two households after a purchase
BalanceChanges == {-20000, 9200}
UpdateBalance ==
  \E a \in {"h2"}, amount \in BalanceChanges :
    /\ updates < MaxUpdates
    /\ updates' = updates + 1
    /\ ledger' = update_balance(ledger, a, amount)
    /\ last' = [Call("update_balance", TRUE) EXCEPT !.who = a]
    /\ UNCHANGED << products, firm_id, firm_financials, redistribution_record_per_person, laborVars, tx_history, firm_monthly_financials,
                    corporate_tax_settled_months, inventory_reservations,
                    unmet_demand_by_month, now >>

\* ------------------------------------------------------ redistribution
MaxRedistTx == 6

\* ------------------------------------------------------ transaction log
\* _index_transaction: the three indexes after tx has been added to them; a key
\* is present once a transaction has been filed under it
_index_transaction(index, tx) ==
  LET add(d, k) == IF k \in DOMAIN d THEN [d EXCEPT ![k] = Append(@, tx)]
                   ELSE (k :> << tx >>) @@ d
      by_sender == add(index.tx_by_party, tx.sender_id)
  IN [tx_by_month |-> add(index.tx_by_month, tx.month),
      tx_by_type  |-> add(index.tx_by_type, tx.type),
      tx_by_party |-> add(by_sender, tx.receiver_id)]

\* the indexes kept by _record_transaction, which files every transaction it
\* appends to tx_history
RECURSIVE tx_index(_)
tx_index(hist) ==
  IF hist = << >>
  THEN [tx_by_month |-> << >>, tx_by_type |-> << >>, tx_by_party |-> << >>]
  ELSE _index_transaction(tx_index(SubSeq(hist, 1, Len(hist) - 1)), hist[Len(hist)])

\* the households with labor hours registered (every household of the model)
all_workers == HouseholdIds

\* get_monthly_tax_collection: the month's tax transactions received by the government
RECURSIVE get_monthly_tax_collection(_, _)
get_monthly_tax_collection(hist, month) ==
  IF hist = << >> THEN 0
  ELSE LET tx == Head(hist)
       IN (IF /\ tx.month = month /\ tx.receiver_id = gov_id
              /\ tx.type \in {"consume_tax", "labor_tax", "fica_tax", "corporate_tax"}
           THEN tx.amount ELSE 0)
          + get_monthly_tax_collection(Tail(hist), month)

\* the households of todo in the order of the allocation dictionary
NextHousehold(todo) == IF "h1" \in todo THEN "h1" ELSE CHOOSE x \in todo : TRUE

\* an allocation that hands the whole amount to one household
FirstTakesAll(workers, total_tax) ==
  [h \in workers |-> IF h = NextHousehold(workers) THEN total_tax ELSE 0]

\* _equal_allocation: the same share for every household
_equal_allocation(workers, total_tax) ==
  [h \in workers |-> total_tax \div Cardinality(workers)]

\* compute_household_monthly_stats: the household's income and expenses of the
\* month and its balance; redistribution is not counted as income. The code
\* reads the household's party index, in which _index_transaction files a
\* transaction once for its sender and once for its receiver, so a transaction
\* the household sent to itself is read twice; without an index entry it reads
\* the whole log, which then holds nothing of the household.
compute_household_monthly_stats(hist, led, household_id, month) ==
  LET times(tx) == IF tx.sender_id = household_id /\ tx.receiver_id = household_id
                   THEN 2 ELSE 1
      income == [i \in DOMAIN hist |->
                   IF /\ hist[i].type \in {"labor_payment", "interest"}
                      /\ hist[i].receiver_id = household_id
                      /\ hist[i].month = month
                   THEN times(hist[i]) * hist[i].amount ELSE 0]
      expense == [i \in DOMAIN hist |->
                    IF /\ hist[i].type \in {"purchase", "consume_tax", "service"}
                       /\ hist[i].sender_id = household_id
                       /\ hist[i].month = month
                    THEN times(hist[i]) * hist[i].amount ELSE 0]
  IN [monthly_income |-> SumOver(income, DOMAIN hist),
      monthly_expense |-> SumOver(expense, DOMAIN hist),
      balance |-> led[household_id]]

\* _calculate_redistribution_allocations and the strategies it dispatches to.
\* laborhour[h] counts the employed and the unemployed labor hours of household
\* h; the three weights of the mixed strategy are percentages. A share is
\* total_tax * weight / total_weight; the components and weights of the poverty
\* strategy, fractions of 1 in the code, are hundredths here. Where the code
\* divides without a guard, so does the model.
_calculate_redistribution_allocations(workers, total_tax, strategy, weights, month, hist, led, laborhour) ==
  LET equal == _equal_allocation(workers, total_tax)
      share(weight, total_weight) ==
        [h \in workers |-> (total_tax * weight[h]) \div total_weight]
      largest(f) == CHOOSE x \in {f[h] : h \in workers} : \A h \in workers : f[h] <= x
      smallest(f) == CHOOSE x \in {f[h] : h \in workers} : \A h \in workers : f[h] >= x
      household_incomes ==
        [h \in workers |-> compute_household_monthly_stats(hist, led, h, month).monthly_income]
      household_balances ==
        [h \in workers |-> compute_household_monthly_stats(hist, led, h, month).balance]
      \* _income_proportional_allocation
      total_income == SumOver(household_incomes, workers)
      income_proportional ==
        IF total_income <= 0 THEN equal ELSE share(household_incomes, total_income)
      \* _poverty_focused_allocation
      max_income == largest(household_incomes)
      min_income == smallest(household_incomes)
      max_balance == largest(household_balances)
      min_balance == smallest(household_balances)
      alpha == 50
      income_component(h) ==
        IF max_income # min_income
        THEN ((max_income - household_incomes[h]) * 100) \div (max_income - min_income)
        ELSE 0
      balance_component(h) ==
        IF max_balance # min_balance
        THEN ((max_balance - household_balances[h]) * 100) \div (max_balance - min_balance)
        ELSE 0
      poverty_weights ==
        [h \in workers |->
           (alpha * income_component(h) + (100 - alpha) * balance_component(h)) \div 100]
      poverty_focused ==
        IF max_income = min_income /\ max_balance = min_balance THEN equal
        ELSE share(poverty_weights, SumOver(poverty_weights, workers))
      \* _unemployment_focused_allocation
      unemployment_weights ==
        [h \in workers |-> laborhour[h].unemployed * 2 + laborhour[h].employed]
      unemployment_focused ==
        IF SumOver(unemployment_weights, workers) <= 0 THEN equal
        ELSE share(unemployment_weights, SumOver(unemployment_weights, workers))
      \* _family_size_allocation
      family_weights ==
        [h \in workers |-> laborhour[h].unemployed + laborhour[h].employed]
      family_size ==
        IF SumOver(family_weights, workers) <= 0 THEN equal
        ELSE share(family_weights, SumOver(family_weights, workers))
      \* _mixed_allocation
      remaining_weight ==
        Max(0, 100 - weights.poverty - weights.unemployment - weights.family_size)
      mixed ==
        [h \in workers |->
           (poverty_focused[h] * weights.poverty
            + unemployment_focused[h] * weights.unemployment
            + family_size[h] * weights.family_size
            + equal[h] * remaining_weight) \div 100]
  IN CASE strategy = "income_proportional" -> income_proportional
       [] strategy = "poverty_focused" -> poverty_focused
       [] strategy = "unemployment_focused" -> unemployment_focused
       [] strategy = "family_size" -> family_size
       [] strategy = "mixed" -> mixed
       [] OTHER -> equal

\* add_redistribution_tx: a log entry only, no balance is touched
add_redistribution_tx(hist, month, sender, receiver, amount) ==
  _record_transaction(hist, sender, receiver, amount, "redistribution", month)

\* the loop of redistribute_monthly_taxes over the allocations
RECURSIVE Redistribute(_, _, _, _)
Redistribute(hist, month, allocations, todo) ==
  IF todo = {} THEN hist
  ELSE LET h == NextHousehold(todo)
           hist1 == IF allocations[h] > 0
                    THEN add_redistribution_tx(hist, month, gov_id, h, allocations[h])
                    ELSE hist
       IN Redistribute(hist1, month, allocations, todo \ {h})

\* redistribute_monthly_taxes(month, strategy, poverty_weight,
\* unemployment_weight, family_size_weight); laborhour is the table of labor
\* hours the center holds when the call is made
redistribute_monthly_taxes(month, strategy, weights, laborhour) ==
  LET total_tax == get_monthly_tax_collection(tx_history, month)
      household_allocations ==
        _calculate_redistribution_allocations(all_workers, total_tax, strategy,
          weights, month, tx_history, ledger, laborhour)
      hist == Redistribute(tx_history, month, household_allocations, all_workers)
      successful_redistributions == Len(hist) - Len(tx_history)
      total_redistributed ==
        SumOver([h \in all_workers |-> IF household_allocations[h] > 0
                                       THEN household_allocations[h] ELSE 0], all_workers)
      call(n, computed) ==
        [op |-> "redistribute_monthly_taxes", ok |-> TRUE, raised |-> FALSE,
         who |-> "", rid |-> NoRes, month |-> month, qty |-> n,
         strategy |-> strategy, weights |-> weights, laborhour |-> laborhour,
         computed |-> computed,
         allocations |-> IF computed THEN household_allocations
                         ELSE [h \in all_workers |-> 0]]
  IN IF strategy = "none" \/ total_tax <= 0 \/ all_workers = {}
     THEN /\ last' = call(0, FALSE)
          /\ UNCHANGED << tx_history, redistribution_record_per_person >>
     ELSE /\ tx_history' = hist
          /\ redistribution_record_per_person' =
               [redistribution_record_per_person EXCEPT
                  ![month] = IF successful_redistributions > 0
                             THEN total_redistributed \div successful_redistributions
                             ELSE 0]
          /\ last' = call(successful_redistributions, TRUE)

\* every household of the model has one or two labor hours registered, each of
\* them employed or not; the weights of the mixed strategy sum to at most 1
RedistributeMonthlyTaxes ==
  \E month \in TradeMonths,
     strategy \in {"none", "equal", "income_proportional", "poverty_focused",
                   "unemployment_focused", "family_size", "mixed"},
     weights \in {[poverty |-> 30, unemployment |-> 20, family_size |-> 10],
                  [poverty |-> 50, unemployment |-> 30, family_size |-> 20]},
     laborhour \in [HouseholdIds ->
                     {[employed |-> 1, unemployed |-> 0],
                      [employed |-> 1, unemployed |-> 1]}] :
    \* the arguments a strategy does not read are left at one value
    /\ strategy # "mixed" => weights.poverty = 30
    /\ strategy \in {"none", "equal", "income_proportional", "poverty_focused"}
         => \A h \in HouseholdIds : laborhour[h].employed = 1 /\ laborhour[h].unemployed = 0
    /\ Len(tx_history) + Cardinality(all_workers) <= MaxRedistTx
    /\ redistribute_monthly_taxes(month, strategy, weights, laborhour)
    /\ UNCHANGED << ledger, products, firm_id, firm_financials, laborVars, firm_monthly_financials,
                    corporate_tax_settled_months, inventory_reservations,
                    unmet_demand_by_month, now, updates >>
\* ===================================================================
\* Labor market (LaborMarket.py)
\* ===================================================================
Workers == {"w1", "w2"}     \* worker keys (household_id, lh_type)
SOCs == {"soc1", "soc2"}
WagePerHour == [soc \in SOCs |-> IF soc = "soc1" THEN 2000 ELSE 10000]   \* cents
NoJob == 0                        \* a return value of None

\* The last labor-market call: its name, what it returned and its arguments.
LaborCall(op, ok) ==
  [op |-> op, ok |-> ok, rounds |-> 0, accepted |-> 0, rejected |-> 0]

\* Job(SOC=soc, firm_id=firm, positions_available=n): is_valid defaults to True
Job(soc, firm, n) ==
  [SOC |-> soc, firm_id |-> firm, positions_available |-> n, is_valid |-> TRUE,
   wage_per_hour |-> WagePerHour[soc]]

\* the first of the indices in hits, or 0 when there is none
FirstIndex(hits) ==
  IF hits = {} THEN 0 ELSE CHOOSE i \in hits : \A k \in hits : i <= k

post_job(jobs, job) == Append(jobs, job)

\* add_job_position: more positions for the firm's job of that SOC, or a new job
add_job_position(jobs, firm, job) ==
  LET Same(j) == j.firm_id = firm /\ j.SOC = job.SOC
      i == FirstIndex({k_ \in DOMAIN jobs : Same(jobs[k_])})
      n == job.positions_available
  IN IF i # 0
     THEN [jobs EXCEPT ![i].positions_available = @ + Max(1, IF n = 0 THEN 1 ELSE n),
                       ![i].is_valid = TRUE]
     ELSE Append(jobs, job)

\* apply_job_plan: add_job_position for every job of the plan with positions
RECURSIVE apply_job_plan(_, _, _)
apply_job_plan(jobs, firm, plan) ==
  IF plan = << >> THEN jobs
  ELSE LET job == [Head(plan) EXCEPT !.firm_id = firm]
       IN IF job.positions_available <= 0
          THEN apply_job_plan(jobs, firm, Tail(plan))
          ELSE apply_job_plan(add_job_position(jobs, firm, job), firm, Tail(plan))

\* _is_worker_available: a matched worker is not available
_is_worker_available(matched, w) == w \notin matched

\* a job's positions_available -= 1, and is_valid = False when none is left
TakePosition(jobs, i) ==
  [jobs EXCEPT ![i].positions_available = @ - 1,
               ![i].is_valid = IF jobs[i].positions_available - 1 <= 0 THEN FALSE ELSE @]

JobsWithinBounds(jobs) ==
  /\ Len(jobs) <= MaxJobs
  /\ \A i \in DOMAIN jobs : jobs[i].positions_available <= MaxPositions

PostJob ==
  \E soc \in {"soc1"}, firm \in FirmIds, n \in {2} :
    /\ JobsWithinBounds(post_job(job_openings, Job(soc, firm, n)))
    /\ job_openings' = post_job(job_openings, Job(soc, firm, n))
    /\ last' = LaborCall("post_job", TRUE)
    /\ UNCHANGED << centerVars, job_applications, backup_candidates, offers,
                    matched_jobs, matched_workers >>

AddJobPosition ==
  \E soc \in {"soc2"}, firm \in FirmIds, n \in {0, 1} :
    /\ JobsWithinBounds(add_job_position(job_openings, firm, Job(soc, firm, n)))
    /\ job_openings' = add_job_position(job_openings, firm, Job(soc, firm, n))
    /\ last' = LaborCall("add_job_position", TRUE)
    /\ UNCHANGED << centerVars, job_applications, backup_candidates, offers,
                    matched_jobs, matched_workers >>

JobPlans == { << Job("soc1", "f1", 0), Job("soc2", "f1", 1) >> }

ApplyJobPlan ==
  \E firm \in FirmIds, plan \in JobPlans :
    /\ JobsWithinBounds(apply_job_plan(job_openings, firm, plan))
    /\ job_openings' = apply_job_plan(job_openings, firm, plan)
    /\ last' = LaborCall("apply_job_plan", TRUE)
    /\ UNCHANGED << centerVars, job_applications, backup_candidates, offers,
                    matched_jobs, matched_workers >>

\* a position check that lets every job through
AnyPositions(j) == TRUE

\* the test "j.positions_available > 0" of align_job
HasPosition(j) == j.positions_available > 0

\* align_job: the first job of that SOC and firm with a position left takes the worker
AlignJob ==
  \E w \in {"w2"}, soc \in SOCs, firm \in FirmIds :
    LET Open(j) == j.SOC = soc /\ j.firm_id = firm /\ HasPosition(j)
        i == FirstIndex({k_ \in DOMAIN job_openings : Open(job_openings[k_])})
    IN IF i = 0
       THEN /\ last' = LaborCall("align_job", FALSE)
            /\ UNCHANGED << centerVars, laborVars >>
       ELSE /\ Len(matched_jobs) < MaxHires
            /\ job_openings' = TakePosition(job_openings, i)
            /\ matched_jobs' = Append(matched_jobs, [job_id |-> i, worker |-> w])
            /\ matched_workers' = matched_workers \cup {w}
            /\ last' = LaborCall("align_job", TRUE)
            /\ UNCHANGED << centerVars, job_applications, backup_candidates, offers >>

\* ------------------------------------------------ applications and offers
\* the value of _compute_matching_loss for a worker's profile and a job's profile
MatchingLoss(w, soc) ==
  CASE w = "w1" -> (IF soc = "soc1" THEN 1 ELSE 2)
    [] w = "w2" -> (IF soc = "soc1" THEN 2 ELSE 1)
    [] OTHER -> 3

_get_job_by_id(jobs, job_id) == IF job_id \in DOMAIN jobs THEN job_id ELSE NoJob

JobIsOpen(jobs, job_id) ==
  /\ _get_job_by_id(jobs, job_id) # NoJob
  /\ jobs[job_id].is_valid
  /\ jobs[job_id].positions_available > 0

\* a submission that does not look the application up in application_index
SubmitWithoutIndex(jobs, apps, matched, job_id, w) ==
  /\ JobIsOpen(jobs, job_id)
  /\ _is_worker_available(matched, w)

\* submit_application: TRUE when the application is accepted into job_applications;
\* application_index holds the keys (job_id, worker) of job_applications
submit_application(jobs, apps, matched, job_id, w) ==
  /\ JobIsOpen(jobs, job_id)
  /\ _is_worker_available(matched, w)
  /\ ~\E i \in DOMAIN apps : apps[i].job_id = job_id /\ apps[i].worker = w

SubmitApplication ==
  \E job_id \in 1..(Len(job_openings) + 1), w \in Workers :
    LET ok == submit_application(job_openings, job_applications, matched_workers, job_id, w)
    IN /\ ok => Len(job_applications) < MaxApplications
       /\ job_applications' =
            IF ok
            THEN Append(job_applications,
                        [job_id |-> job_id, worker |-> w,
                         expected_wage |-> job_openings[job_id].wage_per_hour])
            ELSE job_applications
       /\ last' = [op |-> "submit_application", ok |-> ok, rounds |-> 0, accepted |-> 0,
                   rejected |-> 0, job_id |-> job_id, worker |-> w]
       /\ UNCHANGED << centerVars, job_openings, backup_candidates, offers,
                       matched_jobs, matched_workers >>

\* list.sort(key=score): a stable insertion of c into a sorted list
RECURSIVE InsertByScore(_, _)
InsertByScore(c, sorted) ==
  IF sorted = << >> THEN << c >>
  ELSE IF c.score < Head(sorted).score THEN << c >> \o sorted
  ELSE << Head(sorted) >> \o InsertByScore(c, Tail(sorted))

RECURSIVE SortByScore(_)
SortByScore(cands) ==
  IF cands = << >> THEN << >>
  ELSE InsertByScore(cands[Len(cands)], SortByScore(SubSeq(cands, 1, Len(cands) - 1)))

\* apply_for_jobs: the worker applies to the first max_apply open jobs in ascending
\* order of matching loss; ok reports whether any application was accepted
ApplyForJobs ==
  \E w \in Workers, max_apply \in {0, 1, 3} :
    LET ranked == SortByScore(
                    SelectSeq([i \in DOMAIN job_openings |->
                                 [job_id |-> i,
                                  score |-> MatchingLoss(w, job_openings[i].SOC)]],
                              LAMBDA r : JobIsOpen(job_openings, r.job_id)))
        chosen == SubSeq(ranked, 1, Min(max_apply, Len(ranked)))
        RECURSIVE Submit(_, _)
        Submit(apps, todo) ==
          IF todo = << >> THEN apps
          ELSE LET job_id == Head(todo).job_id
               IN IF submit_application(job_openings, apps, matched_workers, job_id, w)
                  THEN Submit(Append(apps,
                                     [job_id |-> job_id, worker |-> w,
                                      expected_wage |-> job_openings[job_id].wage_per_hour]),
                              Tail(todo))
                  ELSE Submit(apps, Tail(todo))
        result == IF max_apply <= 0 \/ ~_is_worker_available(matched_workers, w)
                  THEN job_applications
                  ELSE Submit(job_applications, chosen)
    IN /\ Len(result) <= MaxApplications
       /\ job_applications' = result
       /\ last' = [op |-> "apply_for_jobs", ok |-> Len(result) > Len(job_applications),
                   rounds |-> 0, accepted |-> 0, rejected |-> 0, job_id |-> NoJob,
                   worker |-> w]
       /\ UNCHANGED << centerVars, job_openings, backup_candidates, offers,
                       matched_jobs, matched_workers >>

\* the applications of a job, in submission order, as scored candidates; the
\* score is 2 * (loss + 0.5 * max(0, expected_wage - wage_per_hour))
RECURSIVE Candidates(_, _, _, _)
Candidates(jobs, apps, matched, job_id) ==
  IF apps = << >> THEN << >>
  ELSE LET app == Head(apps)
           rest == Candidates(jobs, Tail(apps), matched, job_id)
           loss == MatchingLoss(app.worker, jobs[job_id].SOC)
       IN IF app.job_id = job_id /\ _is_worker_available(matched, app.worker)
          THEN << [worker |-> app.worker, loss |-> loss,
                   score |-> 2 * loss + Max(0, app.expected_wage - jobs[job_id].wage_per_hour)]
               >> \o rest
          ELSE rest

max_backups == 3

evaluate_applications(jobs, apps, matched, job_id) ==
  IF ~JobIsOpen(jobs, job_id)
  THEN [primary |-> << >>, backups |-> << >>]
  ELSE LET candidates == SortByScore(Candidates(jobs, apps, matched, job_id))
           positions == Max(0, jobs[job_id].positions_available)
           n == Len(candidates)
           backups == SubSeq(candidates, Min(positions, n) + 1, n)
       IN [primary |-> SubSeq(candidates, 1, Min(positions, n)),
           backups |-> SubSeq(backups, 1, Min(max_backups, Len(backups)))]

_has_offer(offs, job_id, w) ==
  \E i \in DOMAIN offs : offs[i].job_id = job_id /\ offs[i].worker = w

\* _create_offer: the offers afterwards, and whether one was created
_create_offer(offs, jobs, matched, job_id, candidate) ==
  IF ~_is_worker_available(matched, candidate.worker)
  THEN [offers |-> offs, created |-> FALSE]
  ELSE IF _has_offer(offs, job_id, candidate.worker)
  THEN [offers |-> offs, created |-> FALSE]
  ELSE [offers |-> Append(offs, [job_id |-> job_id, worker |-> candidate.worker,
                                 loss |-> candidate.loss,
                                 wage_per_hour |-> jobs[job_id].wage_per_hour,
                                 status |-> "pending"]),
        created |-> TRUE]

\* the keys of the dict job_applications, in insertion order
RECURSIVE ApplicationJobIds(_, _)
ApplicationJobIds(apps, seen) ==
  IF apps = << >> THEN << >>
  ELSE IF Head(apps).job_id \in seen THEN ApplicationJobIds(Tail(apps), seen)
  ELSE << Head(apps).job_id >> \o ApplicationJobIds(Tail(apps), seen \cup {Head(apps).job_id})

\* self.backup_candidates[job_id] = backups; self.backup_cursor[job_id] = 0
SetBackups(backups, job_id, cands) ==
  LET Same(b) == b.job_id = job_id
      i == FirstIndex({k_ \in DOMAIN backups : Same(backups[k_])})
      entry == [job_id |-> job_id, candidates |-> cands, cursor |-> 0]
  IN IF i # 0 THEN [backups EXCEPT ![i] = entry] ELSE Append(backups, entry)

RECURSIVE OfferPrimaries(_, _, _, _, _)
OfferPrimaries(offs, jobs, matched, job_id, primary) ==
  IF primary = << >> THEN offs
  ELSE OfferPrimaries(_create_offer(offs, jobs, matched, job_id, Head(primary)).offers,
                      jobs, matched, job_id, Tail(primary))

\* the loop of make_offers over the jobs that have applications
RECURSIVE MakeOffersLoop(_, _, _, _, _, _)
MakeOffersLoop(job_ids, jobs, apps, matched, offs, backups) ==
  IF job_ids = << >> THEN [offers |-> offs, backups |-> backups]
  ELSE LET job_id == Head(job_ids)
           ev == evaluate_applications(jobs, apps, matched, job_id)
       IN IF _get_job_by_id(jobs, job_id) = NoJob
          THEN MakeOffersLoop(Tail(job_ids), jobs, apps, matched, offs, backups)
          ELSE MakeOffersLoop(Tail(job_ids), jobs, apps, matched,
                              OfferPrimaries(offs, jobs, matched, job_id, ev.primary),
                              SetBackups(backups, job_id, ev.backups))

make_offers(reset_existing) ==
  LET offs0 == IF reset_existing THEN << >> ELSE offers
      backups0 == IF reset_existing THEN << >> ELSE backup_candidates
      r == MakeOffersLoop(ApplicationJobIds(job_applications, {}), job_openings,
                          job_applications, matched_workers, offs0, backups0)
  IN /\ offers' = r.offers
     /\ backup_candidates' = r.backups
     /\ last' = LaborCall("make_offers", TRUE)

MakeOffers ==
  \E reset_existing \in BOOLEAN :
    /\ make_offers(reset_existing)
    /\ UNCHANGED << centerVars, job_openings, job_applications, matched_jobs,
                    matched_workers >>

\* ---------------------------------------------- accepting and rejecting
\* The part of the labor market that the offer protocol changes.
Market == [jobs |-> job_openings, offers |-> offers, backups |-> backup_candidates,
           matched_jobs |-> matched_jobs, matched_workers |-> matched_workers]

_pending_offers_for_job(offs, job_id) ==
  {i \in DOMAIN offs : offs[i].job_id = job_id /\ offs[i].status = "pending"}

\* the while loop of _offer_next_backup over entry b of backup_candidates
RECURSIVE BackupLoop(_, _, _)
BackupLoop(L, job_id, b) ==
  LET idx == L.backups[b].cursor
  IN IF idx >= Len(L.backups[b].candidates) THEN L
     ELSE LET candidate == L.backups[b].candidates[idx + 1]
              L1 == [L EXCEPT !.backups[b].cursor = idx + 1]
              r == _create_offer(L1.offers, L1.jobs, L1.matched_workers, job_id, candidate)
          IN IF r.created THEN [L1 EXCEPT !.offers = r.offers]
             ELSE BackupLoop(L1, job_id, b)

_offer_next_backup(L, job_id) ==
  LET Same(e) == e.job_id = job_id
      b == FirstIndex({k_ \in DOMAIN L.backups : Same(L.backups[k_])})
  IN IF ~JobIsOpen(L.jobs, job_id) THEN L
     ELSE IF Cardinality(_pending_offers_for_job(L.offers, job_id))
               >= L.jobs[job_id].positions_available THEN L
     ELSE IF b = 0 THEN L
     ELSE BackupLoop(L, job_id, b)

\* a rejection that does not test whether the offer is still pending
RejectAnyOffer(L, offer_id, trigger_backup) ==
  IF offer_id \notin DOMAIN L.offers THEN [L |-> L, ok |-> FALSE]
  ELSE [L |-> [L EXCEPT !.offers[offer_id].status = "rejected"], ok |-> TRUE]
\* _reject_offer: the market afterwards, and the returned flag
_reject_offer(L, offer_id, trigger_backup) ==
  IF offer_id \notin DOMAIN L.offers \/ L.offers[offer_id].status # "pending"
  THEN [L |-> L, ok |-> FALSE]
  ELSE LET L1 == [L EXCEPT !.offers[offer_id].status = "rejected"]
       IN [L |-> IF trigger_backup
                 THEN _offer_next_backup(L1, L1.offers[offer_id].job_id)
                 ELSE L1,
           ok |-> TRUE]

\* an acceptance that leaves the worker's other offers as they are
KeepOtherOffers(L, w, keep_offer_id, i) == L
\* _reject_other_offers: the loop over the worker's offers, from offer i on
RECURSIVE _reject_other_offers(_, _, _, _)
_reject_other_offers(L, w, keep_offer_id, i) ==
  IF i > Len(L.offers) THEN L
  ELSE IF L.offers[i].worker = w /\ i # keep_offer_id
  THEN _reject_other_offers(_reject_offer(L, i, TRUE).L, w, keep_offer_id, i + 1)
  ELSE _reject_other_offers(L, w, keep_offer_id, i + 1)

_accept_offer(L, offer_id) ==
  LET offer == L.offers[offer_id]
      refused == [L |-> [L EXCEPT !.offers[offer_id].status = "rejected"], ok |-> FALSE]
  IN IF offer.status # "pending" THEN [L |-> L, ok |-> FALSE]
     ELSE IF ~_is_worker_available(L.matched_workers, offer.worker) THEN refused
     ELSE IF ~JobIsOpen(L.jobs, offer.job_id) THEN refused
     ELSE LET L1 == [L EXCEPT
                       !.jobs = TakePosition(L.jobs, offer.job_id),
                       !.matched_jobs = Append(@, [job_id |-> offer.job_id,
                                                   worker |-> offer.worker]),
                       !.matched_workers = @ \cup {offer.worker},
                       !.offers[offer_id].status = "accepted"]
          IN [L |-> _reject_other_offers(L1, offer.worker, offer_id, 1), ok |-> TRUE]

accept_offer(L, offer_id) ==
  IF offer_id \notin DOMAIN L.offers THEN [L |-> L, ok |-> FALSE]
  ELSE _accept_offer(L, offer_id)

reject_offer(L, offer_id) == _reject_offer(L, offer_id, TRUE)

\* the market after a call
SetMarket(L) ==
  /\ Len(L.matched_jobs) <= MaxHires
  /\ job_openings' = L.jobs
  /\ offers' = L.offers
  /\ backup_candidates' = L.backups
  /\ matched_jobs' = L.matched_jobs
  /\ matched_workers' = L.matched_workers

AcceptOffer ==
  \E offer_id \in 1..(Len(offers) + 1) :
    LET r == accept_offer(Market, offer_id)
    IN /\ SetMarket(r.L)
       /\ last' = LaborCall("accept_offer", r.ok)
       /\ UNCHANGED << centerVars, job_applications >>

RejectOffer ==
  \E offer_id \in 1..(Len(offers) + 1) :
    LET r == reject_offer(Market, offer_id)
    IN /\ SetMarket(r.L)
       /\ last' = LaborCall("reject_offer", r.ok)
       /\ UNCHANGED << centerVars, job_applications >>

\* ------------------------------------------------------- resolve_offers
\* the keys of the dict offers_by_worker, in insertion order
RECURSIVE OfferWorkers(_, _)
OfferWorkers(offs, seen) ==
  IF offs = << >> THEN << >>
  ELSE IF Head(offs).worker \in seen THEN OfferWorkers(Tail(offs), seen)
  ELSE << Head(offs).worker >> \o OfferWorkers(Tail(offs), seen \cup {Head(offs).worker})

\* the ids of a worker's pending offers, in creation order, from offer i on
RECURSIVE PendingOf(_, _, _)
PendingOf(offs, w, i) ==
  IF i > Len(offs) THEN << >>
  ELSE IF offs[i].worker = w /\ offs[i].status = "pending"
  THEN << i >> \o PendingOf(offs, w, i + 1)
  ELSE PendingOf(offs, w, i + 1)

\* a snapshot that finds no pending offer
NoSnapshot(offs, workers) == << >>

\* pending_by_worker: the lists of pending offer ids of the workers that have some
RECURSIVE PendingByWorker(_, _)
PendingByWorker(offs, workers) ==
  IF workers = << >> THEN << >>
  ELSE LET pending == PendingOf(offs, Head(workers), 1)
       IN IF pending = << >> THEN PendingByWorker(offs, Tail(workers))
          ELSE << pending >> \o PendingByWorker(offs, Tail(workers))

\* the sort key of _select_offer; sort() is stable, so the first of the least wins
OfferKey(offer, acceptance_policy) ==
  IF acceptance_policy = "highest_wage"
  THEN << -offer.wage_per_hour, offer.loss >>
  ELSE << offer.loss, -offer.wage_per_hour >>

KeyLess(a, b) == a[1] < b[1] \/ (a[1] = b[1] /\ a[2] < b[2])

_select_offer(offs, offer_ids, acceptance_policy) ==
  LET key(k) == OfferKey(offs[offer_ids[k]], acceptance_policy)
      best == CHOOSE k \in DOMAIN offer_ids :
                \A j \in DOMAIN offer_ids :
                  KeyLess(key(k), key(j)) \/ (key(k) = key(j) /\ k <= j)
  IN offer_ids[best]

\* first pass of a round: every worker accepts the best of its pending offers
RECURSIVE AcceptPass(_, _, _, _)
AcceptPass(L, pending_by_worker, acceptance_policy, accepted) ==
  IF pending_by_worker = << >> THEN [L |-> L, accepted |-> accepted]
  ELSE LET chosen_id == _select_offer(L.offers, Head(pending_by_worker), acceptance_policy)
           r == accept_offer(L, chosen_id)
       IN AcceptPass(r.L, Tail(pending_by_worker), acceptance_policy,
                     IF r.ok THEN accepted + 1 ELSE accepted)

RECURSIVE Flatten(_)
Flatten(lists) == IF lists = << >> THEN << >> ELSE Head(lists) \o Flatten(Tail(lists))

\* second pass: the offers of the snapshot that are still pending are rejected
RECURSIVE RejectPass(_, _, _)
RejectPass(L, offer_ids, rejected) ==
  IF offer_ids = << >> THEN [L |-> L, rejected |-> rejected]
  ELSE IF L.offers[Head(offer_ids)].status = "pending"
  THEN LET r == _reject_offer(L, Head(offer_ids), TRUE)
       IN RejectPass(r.L, Tail(offer_ids), IF r.ok THEN rejected + 1 ELSE rejected)
  ELSE RejectPass(L, Tail(offer_ids), rejected)

\* third pass: _offer_next_backup for every key of backup_candidates
RECURSIVE BackupPass(_, _)
BackupPass(L, k) ==
  IF k > Len(L.backups) THEN L
  ELSE BackupPass(_offer_next_backup(L, L.backups[k].job_id), k + 1)

\* a loop that does not stop when nothing is pending
PendingNeverEmpty(pending_by_worker) == FALSE

\* the test "if not pending_by_worker: break" of resolve_offers
NoPendingOffers(pending_by_worker) == pending_by_worker = << >>

\* the rounds the model lets the loop of resolve_offers run
RoundFuel == MaxJobs * Cardinality(Workers) + 2

\* the while loop of resolve_offers; returned is FALSE when RoundFuel rounds did
\* not bring the loop to one of its breaks
RECURSIVE ResolveLoop(_, _, _, _, _, _)
ResolveLoop(L, acceptance_policy, accepted, rejected, rounds0, prev_total) ==
  LET rounds == rounds0 + 1
      pending_by_worker == PendingByWorker(L.offers, OfferWorkers(L.offers, {}))
      a == AcceptPass(L, pending_by_worker, acceptance_policy, accepted)
      r == RejectPass(a.L, Flatten(pending_by_worker), rejected)
      L3 == BackupPass(r.L, 1)
      total_processed == a.accepted + r.rejected
  IN IF NoPendingOffers(pending_by_worker)
     THEN [L |-> L, accepted |-> accepted, rejected |-> rejected, rounds |-> rounds,
           returned |-> TRUE]
     ELSE IF total_processed = prev_total
     THEN [L |-> L3, accepted |-> a.accepted, rejected |-> r.rejected, rounds |-> rounds,
           returned |-> TRUE]
     ELSE IF rounds >= RoundFuel
     THEN [L |-> L3, accepted |-> a.accepted, rejected |-> r.rejected, rounds |-> rounds,
           returned |-> FALSE]
     ELSE ResolveLoop(L3, acceptance_policy, a.accepted, r.rejected, rounds, total_processed)

resolve_offers(acceptance_policy) ==
  LET r == ResolveLoop(Market, acceptance_policy, 0, 0, 0, -1)
  IN /\ SetMarket(r.L)
     /\ last' = [LaborCall("resolve_offers", r.returned) EXCEPT
                   !.rounds = r.rounds, !.accepted = r.accepted, !.rejected = r.rejected]

ResolveOffers ==
  \E acceptance_policy \in {"best_loss", "highest_wage"} :
    /\ resolve_offers(acceptance_policy)
    /\ UNCHANGED << centerVars, job_applications >>

\* ------------------------------------------------------ monthly wages
MaxWageTx == 4
default_hours_per_week == 40
default_weeks_per_month == 4

\* the household of a worker key (household_id, lh_type)
HouseholdOf(w) == IF w = "w1" THEN "h1" ELSE "h2"

\* calculate_wage_for_matched_job: the job's wage, its firm and the default hours
\* (the jobs carry no hours_per_period)
calculate_wage_for_matched_job(jobs, matched_job) ==
  LET job == jobs[matched_job.job_id]
      hours_per_period == default_hours_per_week
  IN [household_id |-> HouseholdOf(matched_job.worker),
      firm_id |-> job.firm_id,
      wage_per_hour |-> job.wage_per_hour,
      hours_per_period |-> hours_per_period,
      monthly_gross_wage |-> job.wage_per_hour * hours_per_period * default_weeks_per_month]

\* the loop of process_monthly_wages over the matched jobs, from position i
RECURSIVE PayMatchedJobs(_, _, _, _, _, _, _)
PayMatchedJobs(jobs, matched, i, m, led, hist, fin) ==
  IF i > Len(matched) THEN [ledger |-> led, hist |-> hist, fin |-> fin]
  ELSE LET wage_info == calculate_wage_for_matched_job(jobs, matched[i])
           r == PayWage(led, hist, fin, m, wage_info.wage_per_hour, wage_info.household_id,
                        wage_info.firm_id, wage_info.hours_per_period,
                        default_weeks_per_month)
       IN PayMatchedJobs(jobs, matched, i + 1, m, r.ledger, r.hist, r.fin)

process_monthly_wages(m) ==
  LET r == PayMatchedJobs(job_openings, matched_jobs, 1, m, ledger, tx_history,
                          firm_monthly_financials)
  IN /\ ledger' = r.ledger
     /\ tx_history' = r.hist
     /\ firm_monthly_financials' = r.fin
     /\ last' = [Call("process_monthly_wages", TRUE) EXCEPT
                   !.month = m, !.qty = Len(matched_jobs)]

ProcessMonthlyWages ==
  \E m \in TradeMonths :
    /\ Len(tx_history) + 2 * Len(matched_jobs) <= MaxWageTx
    /\ process_monthly_wages(m)
    /\ firm_financials' = record_firm_income_and_expense(firm_financials,
         firm_monthly_financials, firm_monthly_financials')
    /\ UNCHANGED << products, firm_id, redistribution_record_per_person, laborVars, corporate_tax_settled_months,
                    inventory_reservations, unmet_demand_by_month, now, updates >>

\* get_transactions; a filter that is not given is NoMonth or "None"
get_transactions(hist, month, tx_type, party_id) ==
  LET index == tx_index(hist)
      base == IF month # NoMonth
              THEN IF month \in DOMAIN index.tx_by_month
                   THEN index.tx_by_month[month] ELSE hist
              ELSE IF party_id # "None"
              THEN IF party_id \in DOMAIN index.tx_by_party
                   THEN index.tx_by_party[party_id] ELSE hist
              ELSE IF tx_type # "None"
              THEN IF tx_type \in DOMAIN index.tx_by_type
                   THEN index.tx_by_type[tx_type] ELSE hist
              ELSE hist
      by_party == IF party_id # "None"
                  THEN SelectSeq(base, LAMBDA tx : tx.sender_id = party_id
                                                   \/ tx.receiver_id = party_id)
                  ELSE base
      by_month == IF month # NoMonth
                  THEN SelectSeq(by_party, LAMBDA tx : tx.month = month)
                  ELSE by_party
  IN IF tx_type # "None"
     THEN SelectSeq(by_month, LAMBDA tx : tx.type = tx_type)
     ELSE by_month

GetTransactions ==
  \E month \in Months \cup {NoMonth},
     tx_type \in {"None", "consume_tax", "labor_tax"},
     party_id \in {"None", gov_id, "f1"} :
    /\ last' = [op |-> "get_transactions", ok |-> TRUE, month |-> month,
                tx_type |-> tx_type, party_id |-> party_id,
                result |-> get_transactions(tx_history, month, tx_type, party_id)]
    /\ UNCHANGED << centerVars, laborVars >>
\* -------------------------------------------------------------- queries
QueryBalance ==
  \E agent_id \in {"h1", "f1", gov_id} :
    /\ last' = [op |-> "query_balance", ok |-> TRUE, who |-> agent_id, month |-> NoMonth,
                result |-> IF agent_id \in DOMAIN ledger THEN ledger[agent_id] ELSE 0]
    /\ UNCHANGED << centerVars, laborVars >>

\* query_financial_summary: reading firm_financials[agent_id] creates the entry of
\* an agent that has none
QueryFinancialSummary ==
  \E agent_id \in {"h1", "f1"} :
    LET balance == IF agent_id \in DOMAIN ledger THEN ledger[agent_id] ELSE 0
        known == agent_id \in DOMAIN firm_financials
        entry == IF known THEN firm_financials[agent_id]
                 ELSE [total_income |-> 0, total_expenses |-> 0]
    IN /\ last' = [op |-> "query_financial_summary", ok |-> TRUE, who |-> agent_id,
                   month |-> NoMonth,
                   result |->
                     IF known
                     THEN [balance |-> balance, total_income |-> entry.total_income,
                           total_expenses |-> entry.total_expenses,
                           net_profit |-> entry.total_income - entry.total_expenses]
                     ELSE [balance |-> balance, total_income |-> entry.total_income,
                           total_expenses |-> entry.total_expenses]]
       /\ firm_financials' =
            [a \in DOMAIN firm_financials \cup {agent_id} |->
               IF a = agent_id THEN entry ELSE firm_financials[a]]
       /\ UNCHANGED << ledger, products, firm_id, tx_history, firm_monthly_financials,
                       corporate_tax_settled_months, inventory_reservations,
                       unmet_demand_by_month, now, updates,
                       redistribution_record_per_person, laborVars >>

QueryFirmMonthlyFinancials ==
  \E f \in FirmIds \cup {"h1"}, month \in Months :
    LET monthly_data == firm_monthly_financials[f][month]
    IN /\ last' = [op |-> "query_firm_monthly_financials", ok |-> TRUE, who |-> f,
                   month |-> month,
                   result |->
                     [monthly_income |-> monthly_data.income,
                      monthly_expenses |-> monthly_data.expenses,
                      monthly_profit |-> monthly_data.income - monthly_data.expenses,
                      monthly_depreciation |-> 0]]
       /\ UNCHANGED << centerVars, laborVars >>

\* ===================================================================
\* Specifications
\* ===================================================================
\* The inventory and reservation operations of the EconomicCenter.
NextReservation ==
  \/ ReserveInventory
  \/ ConfirmReservation
  \/ ValidateReservation
  \/ ReleaseReservation
  \/ ConsumeProductInventory
  \/ ProcessPurchase
  \/ Tick

SpecReservation == Init /\ [][NextReservation]_vars

\* The money-moving operations of the EconomicCenter.
NextLedger ==
  \/ ProcessPurchase
  \/ ProcessWage
  \/ SettleMonthlyCorporateTax
  \/ AddTxService
  \/ RecordResourcePurchase
  \/ AddInherentMarketTransaction
  \/ AddGovernmentProcurementTransaction
  \/ UpdateBalance
  \/ ProcessPurchaseByFirm
  \/ ProcessPurchaseOfAnyQuantity
  \/ RegisterId

SpecLedger == Init /\ [][NextLedger]_vars

\* The operations of the LaborMarket.
NextLabor ==
  \/ PostJob
  \/ AddJobPosition
  \/ ApplyJobPlan
  \/ AlignJob
  \/ SubmitApplication
  \/ ApplyForJobs
  \/ MakeOffers
  \/ AcceptOffer
  \/ RejectOffer
  \/ ResolveOffers

SpecLabor == Init /\ [][NextLabor]_vars

\* Hiring in the LaborMarket and the wage payments of the EconomicCenter.
NextWages ==
  \/ PostJob
  \/ AddJobPosition
  \/ AlignJob
  \/ SubmitApplication
  \/ MakeOffers
  \/ AcceptOffer
  \/ ProcessWage
  \/ ProcessMonthlyWages

SpecWages == Init /\ [][NextWages]_vars

\* Tax collection and its redistribution in the EconomicCenter.
NextRedistribution ==
  \/ ProcessPurchase
  \/ ProcessWage
  \/ AddTxService
  \/ UpdateBalance
  \/ RedistributeMonthlyTaxes

SpecRedistribution == Init /\ [][NextRedistribution]_vars

\* The income tax computation of a center constructed with any of the policies.
NextTax == CalculateProgressiveIncomeTax

SpecTax == InitTax /\ [][NextTax]_vars

\* The transaction log of the EconomicCenter and the queries that read it.
NextQueries ==
  \/ ProcessWage
  \/ AddTxService
  \/ AddInherentMarketTransaction
  \/ AddGovernmentProcurementTransaction
  \/ GetTransactions
  \/ QueryBalance
  \/ QueryFinancialSummary
  \/ QueryFirmMonthlyFinancials

SpecQueries == Init /\ [][NextQueries]_vars

\* ===================================================================
\* Properties
\* ===================================================================

\* C1: in every reachable state, for every (seller, product), the seller's actual
\* stock is at least the summed quantity of that pair's active reservations.
C1_StockCoversActiveReservations ==
  \A s \in FirmIds, p \in ProductIds :
    ActualStock(products, s, p) >=
      SumOver([i \in DOMAIN inventory_reservations |->
                 IF /\ inventory_reservations[i].seller_id = s
                    /\ inventory_reservations[i].product_id = p
                    /\ inventory_reservations[i].status = "active"
                    /\ now <= inventory_reservations[i].expires_at
                 THEN inventory_reservations[i].quantity ELSE 0],
              DOMAIN inventory_reservations)

\* C2: every completed money-moving operation leaves the sum of all ledger
\* balances unchanged; a purchase that ended with an exception is not completed.
C2_MoneyConserved ==
  [][(/\ last'.op \in {"process_purchase", "process_wage", "settle_monthly_corporate_tax",
                        "add_tx_service", "record_resource_purchase",
                        "add_inherent_market_transaction",
                        "add_government_procurement_transaction"}
      /\ last'.op = "process_purchase" => ~last'.raised)
       => SumOver(ledger', AgentIds) = SumOver(ledger, AgentIds)]_vars

\* C2 witness: a purchase, a wage payment or a tax settlement has moved money:
\* the log holds a corporate_tax entry and the firm's balance has changed.
C2_Witness ==
  /\ last.op = "settle_monthly_corporate_tax"
  /\ \E i \in DOMAIN tx_history : tx_history[i].type = "corporate_tax"
  /\ \E i \in DOMAIN tx_history : tx_history[i].type \in {"purchase", "inherent_market"}
  /\ ledger["f1"] # 0

\* C3: when process_purchase returns failure, every balance, every agent's stock
\* and holdings and the transaction log are as before the call, and a reservation
\* passed to the call ends released.
C3_FailedPurchaseChangesNothing ==
  [][(last'.op = "process_purchase" /\ ~last'.ok)
       => /\ ledger' = ledger
          /\ products' = products
          /\ tx_history' = tx_history
          /\ last'.rid \in DOMAIN inventory_reservations
               => inventory_reservations'[last'.rid].status = "released"]_vars

\* C4: in every reachable state the balance of every household and of the
\* government is at least zero.
C4_NoNegativeHouseholdOrGovernment ==
  \A a \in HouseholdIds \cup {gov_id} : ledger[a] >= 0

\* C5: a reserve_inventory request for quantity q is granted exactly when q is at
\* most the actual stock minus the summed quantities of the reservations active at
\* that moment (after the sweep of the timed-out ones); a granted request appends
\* one active reservation and returns its id, a refused one appends nothing and
\* returns no id.
C5_GrantedExactlyWhenItFits ==
  [][last'.op = "reserve_inventory"
       => LET n == Len(inventory_reservations)
              room(s, p) ==
                ActualStock(products, s, p) -
                  SumOver([i \in 1..n |->
                             IF /\ inventory_reservations'[i].seller_id = s
                                /\ inventory_reservations'[i].product_id = p
                                /\ inventory_reservations'[i].status = "active"
                             THEN inventory_reservations'[i].quantity ELSE 0], 1..n)
          IN /\ last'.ok <=> \A s \in FirmIds, p \in ProductIds : last'.qty <= room(s, p)
             /\ last'.ok =>
                  /\ Len(inventory_reservations') = n + 1
                  /\ last'.rid = n + 1
                  /\ inventory_reservations'[n + 1].status = "active"
                  /\ inventory_reservations'[n + 1].quantity = last'.qty
                  /\ inventory_reservations'[n + 1].buyer_id = last'.who
             /\ ~last'.ok =>
                  /\ Len(inventory_reservations') = n
                  /\ last'.rid = NoRes]_vars

\* C5 witness: a request that the stock alone would cover is refused because
\* another buyer holds an active reservation.
C5_Witness ==
  /\ last.op = "reserve_inventory"
  /\ ~last.ok
  /\ ActualStock(products, "f1", "p1") >= last.qty
  /\ \E i \in DOMAIN inventory_reservations :
       /\ inventory_reservations[i].status = "active"
       /\ inventory_reservations[i].buyer_id # last.who

\* C6: settle_monthly_corporate_tax(m) for a month already settled changes no
\* balance and appends nothing to the log, and the log never holds more than one
\* corporate_tax transaction per firm and month.
C6_SettlementIdempotent ==
  [][/\ (last'.op = "settle_monthly_corporate_tax"
           /\ last'.month \in corporate_tax_settled_months)
          => (ledger' = ledger /\ tx_history' = tx_history)
     /\ \A f \in FirmIds, m \in Months :
          Cardinality({i \in DOMAIN tx_history' :
                         /\ tx_history'[i].type = "corporate_tax"
                         /\ tx_history'[i].sender_id = f
                         /\ tx_history'[i].month = m}) <= 1]_vars

\* C7 (as stated): resolve_offers returns, and the number of rounds it ran is at
\* most the number of offers pending when it started plus the number of offers
\* created during the call.
C7_RoundsWithinTotalOffers ==
  [][last'.op = "resolve_offers"
       => /\ last'.ok
          /\ last'.rounds <=
               Cardinality({i \in DOMAIN offers : offers[i].status = "pending"})
               + (Len(offers') - Len(offers))]_vars

\* C7 (amended): resolve_offers returns, and the number of rounds it ran is at
\* most one more than the number of offers pending when it started plus the
\* number of offers created during the call: the last round only finds that
\* nothing is pending.
C7_RoundsWithinTotalOffersPlusOne ==
  [][last'.op = "resolve_offers"
       => /\ last'.ok
          /\ last'.rounds <=
               Cardinality({i \in DOMAIN offers : offers[i].status = "pending"})
               + (Len(offers') - Len(offers)) + 1]_vars

\* C7 witness: a call that ran three rounds and accepted an offer.
C7_Witness ==
  /\ last.op = "resolve_offers"
  /\ last.ok
  /\ last.rounds >= 3
  /\ last.accepted >= 1

\* C8: when resolve_offers has returned, no job has more pending offers than its
\* positions_available.
C8_PendingWithinPositionsAfterResolve ==
  last.op = "resolve_offers"
    => \A j \in DOMAIN job_openings :
         Cardinality({i \in DOMAIN offers :
                        offers[i].job_id = j /\ offers[i].status = "pending"})
           <= job_openings[j].positions_available

\* C8 witness: resolve_offers has returned after settling a job that had more
\* offers than positions: the job is full, one of its offers was accepted in the
\* call and another was turned down.
C8_Witness ==
  /\ last.op = "resolve_offers"
  /\ last.accepted >= 1
  /\ \E j \in DOMAIN job_openings :
       /\ job_openings[j].positions_available = 0
       /\ \E a, r \in DOMAIN offers :
            /\ offers[a].job_id = j /\ offers[a].status = "accepted"
            /\ offers[r].job_id = j /\ offers[r].status = "rejected"

\* C9: every job's positions_available is at least zero after every call, and
\* align_job, accept_offer and resolve_offers take exactly one position of a job
\* for every worker they match to it.
C9_PositionsNeverNegative ==
  [][/\ \A j \in DOMAIN job_openings' : job_openings'[j].positions_available >= 0
     /\ last'.op \in {"align_job", "accept_offer", "resolve_offers"}
          => \A j \in DOMAIN job_openings :
               job_openings[j].positions_available - job_openings'[j].positions_available
                 = Cardinality({k \in DOMAIN matched_jobs' : matched_jobs'[k].job_id = j})
                   - Cardinality({k \in DOMAIN matched_jobs : matched_jobs[k].job_id = j})]_vars

\* C9 witness: a job has been filled to its last position, by align_job and by an
\* accepted offer.
C9_Witness ==
  \E j \in DOMAIN job_openings :
    /\ job_openings[j].positions_available = 0
    /\ Cardinality({k \in DOMAIN matched_jobs : matched_jobs[k].job_id = j}) = 2
    /\ \E i \in DOMAIN offers : offers[i].job_id = j /\ offers[i].status = "accepted"

\* C10: in every reachable state a job's is_valid flag is true exactly when its
\* positions_available is positive.
C10_ValidExactlyWhenPositionsLeft ==
  \A j \in DOMAIN job_openings :
    job_openings[j].is_valid <=> job_openings[j].positions_available > 0

\* C11: matched_jobs holds at most one MatchedJob per worker slot, in every state
\* reached by accept_offer, resolve_offers and align_job.
C11_OneMatchPerWorker ==
  \A i, k \in DOMAIN matched_jobs :
    matched_jobs[i].worker = matched_jobs[k].worker => i = k

\* C12: a reservation whose status is confirmed, released or expired keeps that
\* status under every later operation.
C12_TerminalStatusNeverChanges ==
  [][\A i \in DOMAIN inventory_reservations :
       inventory_reservations[i].status \in {"confirmed", "released", "expired"}
         => inventory_reservations'[i].status = inventory_reservations[i].status]_vars

\* C13: a reservation that is no longer active is not active after any later
\* operation.
C13_NeverActiveAgain ==
  [][\A i \in DOMAIN inventory_reservations :
       inventory_reservations[i].status # "active"
         => inventory_reservations'[i].status # "active"]_vars

\* C13 witness: one reservation has been released and another has expired, and a
\* confirm_reservation on the released one has just been refused.
C13_Witness ==
  /\ last.op = "confirm_reservation" /\ ~last.ok
  /\ last.rid \in DOMAIN inventory_reservations
  /\ inventory_reservations[last.rid].status = "released"
  /\ \E k \in DOMAIN inventory_reservations : inventory_reservations[k].status = "expired"

\* C14: a successful process_purchase of quantity q at unit price p takes
\* p*q*(1+vat_rate) from the buyer, gives p*q to the seller and p*q*vat_rate to the
\* government, and appends a consume_tax transaction of the tax followed by a
\* purchase transaction of p*q.
C14_PurchaseSplitsPriceAndVat ==
  [][last'.op = "process_purchase" /\ last'.ok =>
       \E s \in FirmIds, price \in Prices, m \in TradeMonths :
         LET b == last'.who
             q == last'.qty
             base == price * q
             tax == (base * vat_rate_pct) \div 100
             n == Len(tx_history)
         IN /\ ledger'[b] = ledger[b] - (base + tax)
            /\ ledger'[s] = ledger[s] + base
            /\ ledger'[gov_id] = ledger[gov_id] + tax
            /\ \A a \in AgentIds \ {b, s, gov_id} : ledger'[a] = ledger[a]
            /\ Len(tx_history') = n + 2
            /\ tx_history'[n + 1] = Tx(b, gov_id, tax, "consume_tax", m)
            /\ tx_history'[n + 2] =
                 [Tx(b, s, base, "purchase", m) EXCEPT !.reservation_id = last'.rid]
            /\ SubSeq(tx_history', 1, n) = tx_history]_vars

\* C14 witness: a purchase of two units against a reservation has succeeded and
\* its purchase transaction is the last entry of the log.
C14_Witness ==
  /\ last.op = "process_purchase" /\ last.ok
  /\ last.qty = 2 /\ last.rid # NoRes
  /\ tx_history # << >>
  /\ tx_history[Len(tx_history)].type = "purchase"
  /\ tx_history[Len(tx_history)].amount = 20000

\* the change of agent a's balance that paying the matched jobs from position i on
\* must cause: net wage to the household, tax to the government, gross from the firm
RECURSIVE ExpectedWageDelta(_, _, _, _)
ExpectedWageDelta(jobs, matched, i, a) ==
  IF i > Len(matched) THEN 0
  ELSE LET g == jobs[matched[i].job_id].wage_per_hour * 40 * 4
           tax == calculate_progressive_income_tax(g)
       IN (IF a = HouseholdOf(matched[i].worker) THEN Max(0, g - tax) ELSE 0)
          + (IF a = gov_id THEN tax ELSE 0)
          - (IF a = jobs[matched[i].job_id].firm_id THEN g ELSE 0)
          + ExpectedWageDelta(jobs, matched, i + 1, a)

\* C15: process_wage with gross wage g takes g from the firm, gives the household
\* max(0, g - tax(g)) and the government tax(g); process_monthly_wages does so for
\* every matched job.
C15_WageSplitsGrossNetTax ==
  [][/\ last'.op = "process_wage" =>
          \E f \in FirmIds, wage_hour \in WageHours :
            LET h == last'.who
                g == wage_hour * 40 * 4
                tax == calculate_progressive_income_tax(g)
            IN /\ ledger'[f] = ledger[f] - g
               /\ ledger'[h] = ledger[h] + Max(0, g - tax)
               /\ ledger'[gov_id] = ledger[gov_id] + tax
     /\ last'.op = "process_monthly_wages" =>
          \A a \in AgentIds :
            ledger'[a] - ledger[a] = ExpectedWageDelta(job_openings, matched_jobs, 1, a)]_vars

\* C15 witness: a payroll has paid two matched jobs, one of them with a gross
\* wage above the first tax bracket.
C15_Witness ==
  /\ last.op = "process_monthly_wages"
  /\ last.qty = 2
  /\ \E k \in DOMAIN matched_jobs :
       job_openings[matched_jobs[k].job_id].wage_per_hour * 40 * 4 > income_tax_rate[2].cutoff
  /\ \E k \in DOMAIN tx_history : tx_history[k].type = "labor_tax" /\ tx_history[k].amount > 100000

\* C16: a payment by a registered firm is never refused for lack of funds:
\* add_tx_service, record_resource_purchase (of a positive cost), the corporate tax
\* settlement and process_purchase (without a reservation, the seller's stock
\* covering every quantity) all succeed for a firm payer.
C16_FirmPayerNeverRejected ==
  [][/\ last'.op = "add_tx_service" /\ InSeq(last'.who, firm_id) => last'.ok
     /\ last'.op = "record_resource_purchase" /\ InSeq(last'.who, firm_id) /\ last'.qty > 0
          => last'.ok
     /\ last'.op = "settle_monthly_corporate_tax" => last'.ok
     /\ (/\ last'.op = "process_purchase" /\ InSeq(last'.who, firm_id)
         /\ last'.rid = NoRes
         /\ \A sel \in FirmIds, p \in ProductIds, q \in Quantities :
              _check_and_reserve_inventory(products, inventory_reservations, sel, p, q, now))
          => last'.ok]_vars

\* C17: the first settle_monthly_corporate_tax(m) takes from every registered
\* firm exactly max(0, income - expenses) * corporate_tax_rate of month m, gives the
\* total to the government and returns each firm's amount, whatever the firm's
\* balance.
C17_FirstSettlementChargesProfitTax ==
  [][(last'.op = "settle_monthly_corporate_tax"
        /\ last'.month \notin corporate_tax_settled_months) =>
       LET m == last'.month
           Firms == {firm_id[k] : k \in DOMAIN firm_id}
           Tax(f) == (Max(0, firm_monthly_financials[f][m].income
                              - firm_monthly_financials[f][m].expenses)
                        * corporate_tax_rate_pct) \div 100
       IN /\ DOMAIN last'.results = Firms
          /\ \A f \in Firms :
               /\ ledger'[f] = ledger[f] - Tax(f)
               /\ last'.results[f] = Tax(f)
          /\ ledger'[gov_id] - ledger[gov_id]
               = SumOver([f \in Firms |-> Tax(f)], Firms)
          /\ \A a \in AgentIds \ (Firms \cup {gov_id}) : ledger'[a] = ledger[a]]_vars

\* C18: redistribute_monthly_taxes for a month that already has redistribution
\* transactions appends nothing to the log and changes no balance.
C18_SecondRedistributionDistributesNothing ==
  [][(/\ last'.op = "redistribute_monthly_taxes"
      /\ \E i \in DOMAIN tx_history :
           /\ tx_history[i].type = "redistribution"
           /\ tx_history[i].month = last'.month)
       => (tx_history' = tx_history /\ ledger' = ledger)]_vars

\* the sum over the brackets i with g > c_i of rate_i * (min(g, c_(i+1)) - c_i),
\* the last bracket without an upper bound
BracketSum(brackets, g) ==
  SumOver([i \in DOMAIN brackets |->
             IF g > brackets[i].cutoff
             THEN (brackets[i].rate
                     * ((IF i < Len(brackets) /\ brackets[i + 1].cutoff < g
                         THEN brackets[i + 1].cutoff ELSE g) - brackets[i].cutoff)) \div 100
             ELSE 0],
          DOMAIN brackets)

\* C19: calculate_progressive_income_tax(g) returns the sum over the brackets i with
\* g > c_i of rate_i * (min(g, c_(i+1)) - c_i); with brackets (0, 10%), (10000, 15%)
\* and g = 15000 it returns 1750, leaving 13250; and the call changes no state.
C19_TaxIsSumOverReachedBrackets ==
  [][last'.op = "calculate_progressive_income_tax" =>
       /\ last'.tax = BracketSum(last'.income_tax_rate, last'.gross_wage)
       /\ (last'.income_tax_rate = ExampleBrackets /\ last'.gross_wage = 1500000)
            => (last'.tax = 175000 /\ last'.gross_wage - last'.tax = 1325000)
       /\ centerVars' = centerVars /\ laborVars' = laborVars]_vars

\* C19 witness: the tax of 15000 under the two example brackets has been computed.
C19_Witness ==
  /\ last.op = "calculate_progressive_income_tax"
  /\ last.income_tax_rate = ExampleBrackets
  /\ last.gross_wage = 1500000 /\ last.tax = 175000

\* C20: of two gross wages computed under the same policy, the higher one never
\* has the lower tax.
C20_TaxMonotonic ==
  (last.op = "calculate_progressive_income_tax" /\ last.gross_wage > last.prev_gross_wage)
    => last.tax >= last.prev_tax

\* C20 witness: a wage in a higher bracket follows a lower wage and is taxed more.
C20_Witness ==
  /\ last.op = "calculate_progressive_income_tax"
  /\ last.gross_wage > last.prev_gross_wage
  /\ last.prev_gross_wage > last.income_tax_rate[1].cutoff
  /\ Len(last.income_tax_rate) >= 2
  /\ last.gross_wage > last.income_tax_rate[2].cutoff
  /\ last.prev_gross_wage <= last.income_tax_rate[2].cutoff
  /\ last.tax > last.prev_tax

\* C21: under a policy whose rates are all below 1, the tax computed for a gross
\* wage is always strictly less than that wage.
C21_TaxBelowGross ==
  (/\ last.op = "calculate_progressive_income_tax"
   /\ \A i \in DOMAIN last.income_tax_rate : last.income_tax_rate[i].rate < 100)
    => last.tax < last.gross_wage

\* C21 amended: under a policy whose rates are all below 1, the tax of a positive
\* gross wage is strictly less than the wage, and the tax of a zero wage is zero.
C21_TaxBelowPositiveGross ==
  (/\ last.op = "calculate_progressive_income_tax"
   /\ \A i \in DOMAIN last.income_tax_rate : last.income_tax_rate[i].rate < 100)
    => /\ last.gross_wage > 0 => last.tax < last.gross_wage
       /\ last.gross_wage = 0 => last.tax = 0

\* C21 witness: a wage in the highest of several brackets has been taxed, by a
\* positive amount that is less than the wage.
C21_Witness ==
  /\ last.op = "calculate_progressive_income_tax"
  /\ Len(last.income_tax_rate) >= 2
  /\ last.gross_wage > last.income_tax_rate[Len(last.income_tax_rate)].cutoff
  /\ last.tax > 0 /\ last.tax < last.gross_wage

\* C22: every reserve_inventory call refused for lack of available stock is counted
\* as unmet demand of its month, product and seller: attempts grows by 1,
\* qty_requested by the quantity asked and qty_short by the quantity asked minus
\* the stock that was available.
C22_RefusedReservationIsRecorded ==
  [][(last'.op = "reserve_inventory" /\ ~last'.ok)
       => \E s \in FirmIds, p \in ProductIds :
            LET key == << last'.month, p, s >>
                available ==
                  _get_available_stock(products,
                    _cleanup_expired_reservations(inventory_reservations, now), s, p, now)
            IN /\ available < last'.qty
               /\ key \in DOMAIN unmet_demand_by_month'
               /\ unmet_demand_by_month'[key].attempts =
                    unmet_demand_by_month[key].attempts + 1
               /\ unmet_demand_by_month'[key].qty_requested =
                    unmet_demand_by_month[key].qty_requested + last'.qty
               /\ unmet_demand_by_month'[key].qty_short =
                    unmet_demand_by_month[key].qty_short + (last'.qty - available)]_vars

\* C23: a purchase paid by the government account appends no consume_tax record
\* to the log, neither through add_government_procurement_transaction nor
\* through add_inherent_market_transaction.
C23_GovernmentPayerNeverTaxed ==
  [][(/\ last'.op \in {"add_government_procurement_transaction",
                       "add_inherent_market_transaction"}
      /\ last'.who = gov_id)
       => \A i \in (Len(tx_history) + 1)..Len(tx_history') :
            tx_history'[i].type # "consume_tax"]_vars

\* C24: get_transactions(month, type, party) returns exactly the transactions of
\* tx_history that match every filter given, each one once and in the order of
\* the log.
C24_QueryAgreesWithFullScan ==
  [][last'.op = "get_transactions" =>
       last'.result =
         SelectSeq(tx_history,
                   LAMBDA tx :
                     /\ last'.month # NoMonth => tx.month = last'.month
                     /\ last'.tx_type # "None" => tx.type = last'.tx_type
                     /\ last'.party_id # "None" =>
                          (tx.sender_id = last'.party_id
                             \/ tx.receiver_id = last'.party_id))]_vars

\* C25: query_balance, query_financial_summary and query_firm_monthly_financials
\* change no state, and a query repeated with the same argument right after
\* itself returns the same result.
C25_QueriesReadOnly ==
  [][last'.op \in {"query_balance", "query_financial_summary",
                   "query_firm_monthly_financials"}
       => /\ centerVars' = centerVars /\ laborVars' = laborVars
          /\ (last.op = last'.op /\ last.who = last'.who /\ last.month = last'.month)
               => last'.result = last.result]_vars

\* C26: a money-moving operation that fails for lack of funds, lack of inventory
\* or a missing product reports the failure as its result and does not raise:
\* process_purchase, add_tx_service, record_resource_purchase,
\* add_inherent_market_transaction and add_government_procurement_transaction.
C26_FailuresReturnedNotRaised ==
  [][(/\ last'.op \in {"process_purchase", "add_tx_service", "record_resource_purchase",
                       "add_inherent_market_transaction",
                       "add_government_procurement_transaction"}
      /\ ~last'.ok)
       => ~last'.raised]_vars

\* C27: when accept_offer succeeds, the offer it accepted is the only one the
\* worker slot still holds open: right after the call no offer of that worker,
\* for any job, is pending.
C27_AcceptRejectsOtherOffers ==
  [][(last'.op = "accept_offer" /\ last'.ok)
       => /\ \E i \in DOMAIN offers :
               offers[i].status = "pending" /\ offers'[i].status = "accepted"
          /\ \A i \in DOMAIN offers :
               (offers[i].status = "pending" /\ offers'[i].status = "accepted")
                 => \A k \in DOMAIN offers' :
                      offers'[k].worker = offers'[i].worker
                        => offers'[k].status # "pending"]_vars

\* C27 witness: a worker who held offers for two jobs has accepted one of them, and
\* the other one stands rejected.
C27_Witness ==
  /\ last.op = "accept_offer" /\ last.ok
  /\ \E i, k \in DOMAIN offers :
       /\ offers[i].worker = offers[k].worker
       /\ offers[i].job_id # offers[k].job_id
       /\ offers[i].status = "accepted"
       /\ offers[k].status = "rejected"

\* C28: when a step rejects a pending offer of a job and leaves the job open with
\* fewer pending offers than positions, a backup candidate of the job has been
\* promoted unless none is eligible (available and not yet offered the job); every
\* backup promoted receives a pending offer and is the first eligible candidate in
\* the ascending score order of the job's backup list, so that no backup is
\* passed over and none is offered the job twice.
C28_RejectionPromotesNextBackup ==
  [][last'.op \in {"reject_offer", "accept_offer", "resolve_offers"} =>
       \A j \in DOMAIN job_openings' :
         LET rejected == {i \in DOMAIN offers :
                            /\ offers[i].job_id = j /\ offers[i].status = "pending"
                            /\ offers'[i].status = "rejected"}
             created == {i \in DOMAIN offers' \ DOMAIN offers : offers'[i].job_id = j}
             entries == {b \in DOMAIN backup_candidates' :
                           backup_candidates'[b].job_id = j}
             eligible(c) == /\ _is_worker_available(matched_workers', c.worker)
                            /\ ~_has_offer(offers', j, c.worker)
         IN rejected # {} =>
              /\ (/\ JobIsOpen(job_openings', j)
                  /\ created = {}
                  /\ Cardinality(_pending_offers_for_job(offers', j))
                       < job_openings'[j].positions_available)
                   => \A b \in entries :
                        \A k \in DOMAIN backup_candidates'[b].candidates :
                          ~eligible(backup_candidates'[b].candidates[k])
              /\ \A i \in created :
                   /\ last'.op # "resolve_offers" => offers'[i].status = "pending"
                   /\ \A k \in DOMAIN offers' :
                        (offers'[k].job_id = j /\ offers'[k].worker = offers'[i].worker)
                          => k = i
                   /\ \E b \in entries :
                        LET cands == backup_candidates'[b].candidates
                        IN \E k \in DOMAIN cands :
                             /\ cands[k].worker = offers'[i].worker
                             /\ \A k2 \in 1..(k - 1) :
                                  /\ ~eligible(cands[k2])
                                  /\ cands[k2].score <= cands[k].score]_vars

\* C29: after make_offers, every primary candidate of every job that has
\* applications (the positions_available lowest-scoring available applicants) holds
\* a pending offer for that job, whether created by this call or held before it;
\* an earlier offer that is no longer pending does not stand in for one.
C29_PrimariesHoldPendingOffers ==
  [][last'.op = "make_offers" =>
       \A a \in DOMAIN job_applications' :
         LET j == job_applications'[a].job_id
             primary == evaluate_applications(job_openings', job_applications',
                                              matched_workers', j).primary
         IN _get_job_by_id(job_openings', j) # NoJob =>
              \A k \in DOMAIN primary :
                \E i \in DOMAIN offers' :
                  /\ offers'[i].job_id = j
                  /\ offers'[i].worker = primary[k].worker
                  /\ offers'[i].status = "pending"]_vars

\* C30: under accept_offer, reject_offer and resolve_offers an offer only ever
\* moves from pending to accepted or from pending to rejected: every offer stays
\* in the log, an offer that is accepted or rejected is left exactly as it is, and
\* a pending one either stays pending or becomes accepted or rejected.
C30_OfferStatusOnlyLeavesPending ==
  [][last'.op \in {"accept_offer", "reject_offer", "resolve_offers"} =>
       \A i \in DOMAIN offers :
         /\ i \in DOMAIN offers'
         /\ offers[i].status # "pending" => offers'[i] = offers[i]
         /\ offers'[i].status \in {"pending", "accepted", "rejected"}]_vars

\* C30 witness: reject_offer has been refused while the log holds an accepted and a
\* rejected offer and no pending one, so the call met only offers that were settled.
C30_Witness ==
  /\ last.op = "reject_offer" /\ ~last.ok
  /\ \E i, k \in DOMAIN offers :
       offers[i].status = "accepted" /\ offers[k].status = "rejected"
  /\ \A i \in DOMAIN offers : offers[i].status # "pending"

\* C31: job_applications holds at most one application per job and worker slot:
\* submit_application and apply_for_jobs only ever append applications whose
\* (job, worker) key is new, and a submit_application for a key that is already
\* there returns failure and leaves job_applications as it was.
C31_OneApplicationPerJobAndWorker ==
  [][last'.op \in {"submit_application", "apply_for_jobs"} =>
       /\ \A i, k \in DOMAIN job_applications' :
            (/\ job_applications'[i].job_id = job_applications'[k].job_id
             /\ job_applications'[i].worker = job_applications'[k].worker) => i = k
       /\ Len(job_applications') >= Len(job_applications)
       /\ SubSeq(job_applications', 1, Len(job_applications)) = job_applications
       /\ ~last'.ok => job_applications' = job_applications
       /\ (/\ last'.op = "submit_application"
           /\ \E i \in DOMAIN job_applications :
                /\ job_applications[i].job_id = last'.job_id
                /\ job_applications[i].worker = last'.worker)
            => (~last'.ok /\ job_applications' = job_applications)]_vars

\* C31 witness: a worker who is still available has submitted a second application
\* for a job that is still open and holds the first one, and was refused.
C31_Witness ==
  /\ last.op = "submit_application" /\ ~last.ok
  /\ JobIsOpen(job_openings, last.job_id)
  /\ _is_worker_available(matched_workers, last.worker)
  /\ \E i \in DOMAIN job_applications :
       /\ job_applications[i].job_id = last.job_id
       /\ job_applications[i].worker = last.worker

\* ------------------------------------------------------------------ C32
\* C32: whenever process_purchase with a reservation id returns success, that
\* reservation is confirmed when the call returns, also when the clock passes
\* expires_at while the call runs; no purchase completes on a reservation that
\* ends expired or released.
C32_SuccessfulPurchaseConfirmsReservation ==
  [][(last'.op = "process_purchase" /\ last'.ok /\ last'.rid # NoRes)
       => /\ last'.rid \in DOMAIN inventory_reservations'
          /\ inventory_reservations'[last'.rid].status = "confirmed"]_vars

\* ------------------------------------------------------------------ C33
\* C33: no reservation is ever confirmed after its expiry: a call of
\* confirm_reservation or validate_reservation made later than expires_at
\* fails, and no step makes a reservation confirmed at a time later than its
\* expires_at.
C33_NeverConfirmedAfterExpiry ==
  [][/\ (/\ last'.op \in {"confirm_reservation", "validate_reservation"}
         /\ last'.rid \in DOMAIN inventory_reservations
         /\ now > inventory_reservations[last'.rid].expires_at)
        => ~last'.ok
     /\ \A rid \in DOMAIN inventory_reservations' :
          (/\ inventory_reservations'[rid].status = "confirmed"
           /\ (rid \in DOMAIN inventory_reservations
                 => inventory_reservations[rid].status # "confirmed"))
            => now' <= inventory_reservations'[rid].expires_at]_vars

\* a confirmation attempted after the expiry was refused and the reservation
\* is expired
C33_Witness ==
  /\ last.op = "confirm_reservation"
  /\ ~last.ok
  /\ last.rid \in DOMAIN inventory_reservations
  /\ now > inventory_reservations[last.rid].expires_at
  /\ inventory_reservations[last.rid].status = "expired"

\* ------------------------------------------------------------------ C34
\* C34: redistribute_monthly_taxes transfers money from the government to the
\* households: every household's balance rises by the amount of the
\* redistribution transaction the call logged for it, and the government's
\* balance falls by the sum of those amounts.
C34_RedistributionMovesMoney ==
  [][last'.op = "redistribute_monthly_taxes"
       => LET new == (Len(tx_history) + 1)..Len(tx_history')
              paid == [i \in new |-> tx_history'[i].amount]
              to(h) == {i \in new : tx_history'[i].receiver_id = h}
          IN /\ \A h \in HouseholdIds :
                  ledger'[h] = ledger[h] + SumOver(paid, to(h))
             /\ ledger'[gov_id] = ledger[gov_id] - SumOver(paid, new)]_vars

\* ------------------------------------------------------------------ C35
\* C35: every redistribution strategy (income_proportional, poverty_focused,
\* unemployment_focused, family_size, mixed) gives each of the n households
\* total_tax / n when its discriminating signal is the same for all of them,
\* also when the signal is zero everywhere. The signal is the monthly income
\* (income_proportional), the monthly income and the balance (poverty_focused),
\* twice the unemployed plus the employed labor hours (unemployment_focused),
\* the number of labor hours (family_size), and all of these for mixed. A
\* division by zero would stop the evaluation of the allocation.
C35_EqualSignalGivesEqualSplit ==
  [][(last'.op = "redistribute_monthly_taxes" /\ last'.computed)
       => LET total_tax == get_monthly_tax_collection(tx_history, last'.month)
              lh == last'.laborhour
              stats(h) == compute_household_monthly_stats(tx_history, ledger, h, last'.month)
              same(f) == \A g, h \in all_workers : f[g] = f[h]
              income == same([h \in all_workers |-> stats(h).monthly_income])
              poverty == income /\ same([h \in all_workers |-> stats(h).balance])
              unemployment ==
                same([h \in all_workers |-> 2 * lh[h].unemployed + lh[h].employed])
              family ==
                same([h \in all_workers |-> lh[h].unemployed + lh[h].employed])
              signal_equal ==
                CASE last'.strategy = "income_proportional" -> income
                  [] last'.strategy = "poverty_focused" -> poverty
                  [] last'.strategy = "unemployment_focused" -> unemployment
                  [] last'.strategy = "family_size" -> family
                  [] last'.strategy = "mixed" -> poverty /\ unemployment /\ family
                  [] OTHER -> FALSE
          IN signal_equal
               => \A h \in all_workers :
                    last'.allocations[h] = total_tax \div Cardinality(all_workers)]_vars

\* the mixed strategy split a positive tax evenly between households that have
\* the same income, balance and labor hours
C35_Witness ==
  /\ last.op = "redistribute_monthly_taxes"
  /\ last.computed
  /\ last.strategy = "mixed"
  /\ ledger["h1"] = ledger["h2"]
  /\ \A g, h \in all_workers :
       /\ last.laborhour[g] = last.laborhour[h]
       /\ compute_household_monthly_stats(tx_history, ledger, g, last.month).monthly_income
            = compute_household_monthly_stats(tx_history, ledger, h, last.month).monthly_income
       /\ last.allocations[g] = last.allocations[h]
       /\ last.allocations[h] > 0

\* ------------------------------------------------------------------ C36
\* C36: the transaction log is a faithful audit trail: every account's balance
\* is its initial balance plus the logged amounts it received minus the logged
\* amounts it sent, so every step changes each balance by exactly what the
\* transactions logged in that step say.
C36_LedgerFollowsLog ==
  [][LET new == (Len(tx_history) + 1)..Len(tx_history')
         amount == [i \in new |-> tx_history'[i].amount]
         received(a) == {i \in new : tx_history'[i].receiver_id = a}
         sent(a) == {i \in new : tx_history'[i].sender_id = a}
     IN \A a \in AgentIds :
          ledger'[a] = ledger[a] + SumOver(amount, received(a))
                                 - SumOver(amount, sent(a))]_vars

\* ------------------------------------------------------------------ C37
\* C37: a reservation backs at most one successful purchase, in every order of
\* process_purchase calls that name it: a purchase on a reservation succeeds
\* only when the reservation was active before the call, it leaves the
\* reservation not active, no step makes a reservation active again, and the
\* log holds at most one purchase made on it; the seller's stock falls by the
\* reserved quantity in that one call and in no other call that names it.
C37_OnePurchasePerReservation ==
  [][/\ \A rid \in DOMAIN inventory_reservations :
          inventory_reservations[rid].status # "active"
            => inventory_reservations'[rid].status # "active"
     /\ \A rid \in DOMAIN inventory_reservations' :
          Cardinality({i \in DOMAIN tx_history' :
                         /\ tx_history'[i].type = "purchase"
                         /\ tx_history'[i].reservation_id = rid}) <= 1
     /\ (last'.op = "process_purchase" /\ last'.rid # NoRes)
          => IF last'.ok
             THEN /\ last'.rid \in DOMAIN inventory_reservations
                  /\ inventory_reservations[last'.rid].status = "active"
                  /\ inventory_reservations'[last'.rid].status # "active"
                  /\ \A s \in FirmIds, p \in ProductIds :
                       products'[s][p].amount >= products[s][p].amount - last'.qty
             ELSE \A s \in FirmIds, p \in ProductIds :
                    products'[s][p].amount = products[s][p].amount]_vars

\* a purchase on a reservation is in the log and a later purchase that named
\* the same reservation has failed
C37_Witness ==
  /\ last.op = "process_purchase"
  /\ ~last.ok
  /\ last.rid # NoRes
  /\ \E i \in DOMAIN tx_history :
       /\ tx_history[i].type = "purchase"
       /\ tx_history[i].reservation_id = last.rid

\* ------------------------------------------------------------------ C38
\* C38: a process_purchase call of buyer B leaves every reservation held by
\* another buyer as it was, whatever reservation id B passes and whether or not
\* B has the funds; the only change allowed is that an active reservation whose
\* expiry has passed becomes expired.
C38_PurchaseLeavesOthersReservations ==
  [][last'.op = "process_purchase"
       => \A rid \in DOMAIN inventory_reservations :
            inventory_reservations[rid].buyer_id # last'.who
              => \/ inventory_reservations'[rid] = inventory_reservations[rid]
                 \/ /\ inventory_reservations[rid].status = "active"
                    /\ now' > inventory_reservations[rid].expires_at
                    /\ inventory_reservations'[rid] =
                         [inventory_reservations[rid] EXCEPT !.status = "expired"]]_vars

\* ------------------------------------------------------------------ C39
\* C39: no process_purchase call increases the buyer's balance or the seller's
\* stock of the product, whatever the quantity, zero and negative included.
C39_PurchaseNeverPaysBuyer ==
  [][last'.op = "process_purchase"
       => /\ ledger'[last'.who] <= ledger[last'.who]
          /\ \A s \in FirmIds, p \in ProductIds :
               ActualStock(products', s, p) <= ActualStock(products, s, p)]_vars

\* ------------------------------------------------------------------ C40
\* C40: after settle_monthly_corporate_tax(m) the log holds at most one
\* corporate_tax transaction per firm and month m, and the firm has been charged
\* the tax on its profit of the month once, also when the firm's id was
\* registered more than once.
C40_OneCorporateTaxPerFirmAndMonth ==
  [][last'.op = "settle_monthly_corporate_tax"
       => LET m == last'.month
              Firms == {firm_id[k] : k \in DOMAIN firm_id}
              Tax(f) == Pct(Max(0, firm_monthly_financials[f][m].income
                                   - firm_monthly_financials[f][m].expenses),
                            corporate_tax_rate_pct)
          IN \A f \in Firms :
               /\ Cardinality({i \in DOMAIN tx_history' :
                                 /\ tx_history'[i].type = "corporate_tax"
                                 /\ tx_history'[i].sender_id = f
                                 /\ tx_history'[i].month = m}) <= 1
               /\ ledger'[f] \in {ledger[f], ledger[f] - Tax(f)}]_vars

====
